---- MODULE Spec2Model ----
(***************************************************************************)
(* A model of pulsegen_client.runner: the measure / arrange / render       *)
(* layout engine (_layout.py), the phase tracker (phase_tracker.py), the   *)
(* pulse list (_pulse_list.py) and the driver run_schedule (_runner.py).   *)
(*                                                                         *)
(* Python floats are modelled as exact rationals <<num, den>> in lowest    *)
(* terms with den >= 0; <<1, 0>> is math.inf, <<-1, 0>> is -math.inf and   *)
(* <<0, 0>> is NaN.  None is the empty tuple.                              *)
(***************************************************************************)
EXTENDS Integers, Sequences, FiniteSets, TLC

VARIABLES
    pc,         \* position of the driver: "start", "measured", "arranged",
                \* "rendered", "done", "failed", "remeasured"
    err,        \* the exception that ended the run, or "none"
    channels,   \* request.channels
    shapes,     \* request.shapes (the kind of each shape)
    tree,       \* the schedule tree: every node holds its element's
                \* attributes (e), its LayoutManager's state (lo) and its
                \* children (ch)
    orig,       \* the request's schedule as it was handed to run_schedule
    tracker,    \* PhaseTracker.channels
    ops,        \* the tracker calls made so far, in call order
    waveforms   \* the dict run_schedule returns (name -> lengths of I and Q)

vars == <<pc, err, channels, shapes, tree, orig, tracker, ops, waveforms>>

----------------------------------------------------------------------------
(* Bounds of the model *)

MaxChildren == 2
MaxCount == 2
MaxAvail == 2
MaxLength == 3

----------------------------------------------------------------------------
(* Floats as rationals *)

None == <<>>

Abs(i) == IF i < 0 THEN -i ELSE i

Sign(i) == IF i < 0 THEN -1 ELSE IF i > 0 THEN 1 ELSE 0

RECURSIVE GCD(_, _)
GCD(a, b) == IF b = 0 THEN a ELSE GCD(b, a % b)

Norm(n, d) ==
    IF d = 0 THEN <<Sign(n), 0>>
    ELSE LET g == GCD(Abs(n), Abs(d))
         IN  <<(Sign(d) * n) \div g, Abs(d) \div g>>

Q(i) == <<i, 1>>
Zero == <<0, 1>>
Inf == <<1, 0>>
NaN == <<0, 0>>

IsNaN(a) == a[1] = 0 /\ a[2] = 0
IsFinite(a) == a[2] # 0

RAdd(a, b) ==
    IF a[2] = 0 /\ b[2] = 0
    THEN (IF a[1] = b[1] THEN a ELSE NaN)
    ELSE Norm(a[1] * b[2] + b[1] * a[2], a[2] * b[2])

RNeg(a) == <<-a[1], a[2]>>

RSub(a, b) == RAdd(a, RNeg(b))

RMul(a, b) == Norm(a[1] * b[1], a[2] * b[2])

\* a / b for b # 0 (the callers raise ZeroDivisionError themselves)
RDiv(a, b) ==
    IF b[2] = 0
    THEN (IF a[2] = 0 THEN NaN ELSE Zero)
    ELSE Norm(a[1] * b[2] * Sign(b[1]), a[2] * Abs(b[1]))

RLt(a, b) ==
    IF IsNaN(a) \/ IsNaN(b) THEN FALSE
    ELSE IF a[2] = 0 /\ b[2] = 0 THEN a[1] < b[1]
    ELSE a[1] * b[2] < b[1] * a[2]

RLe(a, b) ==
    IF IsNaN(a) \/ IsNaN(b) THEN FALSE
    ELSE IF a[2] = 0 /\ b[2] = 0 THEN a[1] <= b[1]
    ELSE a[1] * b[2] <= b[1] * a[2]

\* Python's max(a, b) and min(a, b): the first argument wins a tie
PyMax(a, b) == IF RLt(a, b) THEN b ELSE a
PyMin(a, b) == IF RLt(b, a) THEN b ELSE a

\* math.floor and math.ceil of a finite rational
Floor(a) == a[1] \div a[2]
Ceil(a) == -((-a[1]) \div a[2])

\* Python's round(): half to even
Round(a) ==
    LET f == Floor(a)
        twice == RSub(RMul(Q(2), a), Q(2 * f))   \* 2 * (a - f) in [0, 2)
    IN  IF RLt(twice, Q(1)) THEN f
        ELSE IF RLt(Q(1), twice) THEN f + 1
        ELSE IF f % 2 = 0 THEN f ELSE f + 1

RECURSIVE SumSeq(_)
SumSeq(s) == IF s = <<>> THEN Zero ELSE RAdd(SumSeq(SubSeq(s, 1, Len(s) - 1)), s[Len(s)])

RECURSIVE MaxOfSet(_)
MaxOfSet(S) ==
    LET x == CHOOSE y \in S : TRUE
    IN  IF S = {x} THEN x ELSE PyMax(x, MaxOfSet(S \ {x}))

----------------------------------------------------------------------------
(* Python sequences: 0-based indices, negative indices count from the end *)

PyIndexOK(i, len) == -len <= i /\ i < len

\* the 1-based position of s[i]
PyPos(i, len) == IF i < 0 THEN i + len + 1 ELSE i + 1

\* slice(start, stop).indices(len): the 0-based half-open range of s[start:stop]
SliceLo(start, len) ==
    IF start < 0 THEN (IF start + len < 0 THEN 0 ELSE start + len)
    ELSE IF start > len THEN len ELSE start

SliceRange(start, stop, len) ==
    LET lo == SliceLo(start, len)
        hi == SliceLo(stop, len)
    IN  IF hi < lo THEN <<lo, lo>> ELSE <<lo, hi>>

\* s[start:stop] as a sequence
PySlice(s, start, stop) ==
    LET r == SliceRange(start, stop, Len(s))
    IN  SubSeq(s, r[1] + 1, r[2])

\* list(range(a, b))
PyRange(a, b) == IF b <= a THEN <<>> ELSE [k \in 1..(b - a) |-> a + k - 1]

Reverse(s) == [k \in 1..Len(s) |-> s[Len(s) + 1 - k]]

----------------------------------------------------------------------------
(* schedule.py: the elements.  Every element record has every field; the   *)
(* fields an element type does not have keep the defaults below.  time,    *)
(* column and span are the fields of the AbsoluteEntry or GridEntry that   *)
(* holds the element in its parent.                                        *)

Element(type) ==
    [ type |-> type,
      margin |-> <<Zero, Zero>>, alignment |-> "END", visibility |-> TRUE,
      duration |-> None, max_duration |-> Inf, min_duration |-> Zero,
      channel_id |-> 0, channel_id2 |-> 0, channel_ids |-> <<>>,
      amplitude |-> Zero, shape_id |-> -1, width |-> Zero, plateau |-> Zero,
      drag_coef |-> Zero, frequency |-> Zero, phase |-> Zero,
      flexible |-> FALSE,
      count |-> 0, spacing |-> Zero,
      direction |-> "BACKWARDS",
      columns |-> <<>>,
      time |-> Zero, column |-> 0, span |-> 1 ]

Play(channel_id, amplitude, shape_id, width) ==
    [Element("Play") EXCEPT !.channel_id = channel_id, !.amplitude = amplitude,
                            !.shape_id = shape_id, !.width = width]

ShiftPhase(channel_id, phase) ==
    [Element("ShiftPhase") EXCEPT !.channel_id = channel_id, !.phase = phase]

SetPhase(channel_id, phase) ==
    [Element("SetPhase") EXCEPT !.channel_id = channel_id, !.phase = phase]

ShiftFrequency(channel_id, frequency) ==
    [Element("ShiftFrequency") EXCEPT !.channel_id = channel_id,
                                      !.frequency = frequency]

SetFrequency(channel_id, frequency) ==
    [Element("SetFrequency") EXCEPT !.channel_id = channel_id,
                                    !.frequency = frequency]

SwapPhase(channel_id1, channel_id2) ==
    [Element("SwapPhase") EXCEPT !.channel_id = channel_id1,
                                 !.channel_id2 = channel_id2]

Barrier(channel_ids) == [Element("Barrier") EXCEPT !.channel_ids = channel_ids]

Repeat(count, spacing) ==
    [Element("Repeat") EXCEPT !.count = count, !.spacing = spacing]

Stack(direction) == [Element("Stack") EXCEPT !.direction = direction]

Absolute == Element("Absolute")

Grid(columns) == [Element("Grid") EXCEPT !.columns = columns]

GridLength(value, unit) == [value |-> value, unit |-> unit]
GridLengthAuto == GridLength(NaN, "AUTO")
GridLengthStar(value) == GridLength(value, "STAR")
GridLengthAbs(value) == GridLength(value, "SECOND")

----------------------------------------------------------------------------
(* _layout.py: LayoutManager.  A node of the tree is the element, the      *)
(* state of the layout manager created for it, and the child nodes.        *)

\* LayoutManager.__init__ (measured, arranged and rendered count the calls
\* of measure, arrange and render_override on the node; available and bounds
\* keep the argument and the _minmax() result of the last measure)
NewLayout ==
    [ desired_duration |-> None, unclipped_duration |-> None,
      actual_time |-> None, actual_duration |-> None,
      min_column_width |-> None,
      measured |-> 0, arranged |-> 0, rendered |-> 0,
      available |-> None, bounds |-> None ]

Node(e, ch) == [e |-> e, lo |-> NewLayout, ch |-> ch]

SeqToSet(s) == {s[k] : k \in 1..Len(s)}

\* the channels attribute create_layout_manager gives the node's manager
RECURSIVE Channels(_)
Channels(n) ==
    CASE n.e.type = "Play" -> {n.e.channel_id}
      [] n.e.type \in {"ShiftPhase", "SetPhase", "ShiftFrequency", "SetFrequency"}
            -> {n.e.channel_id}
      [] n.e.type = "SwapPhase" -> {n.e.channel_id, n.e.channel_id2}
      [] n.e.type = "Barrier" -> SeqToSet(n.e.channel_ids)
      [] n.e.type = "Repeat" -> Channels(n.ch[1])
      [] OTHER -> UNION {Channels(n.ch[k]) : k \in 1..Len(n.ch)}

\* `x or default` on an Optional[float]: None and 0 are both falsy
Truthy(x) == x # None /\ x # Zero

minmax(e) ==
    LET max0 == IF Truthy(e.duration) THEN e.duration ELSE Inf
        max_duration == PyMax(PyMin(max0, e.max_duration), e.min_duration)
        min0 == IF Truthy(e.duration) THEN e.duration ELSE Zero
        min_duration == PyMax(PyMin(min0, e.max_duration), e.min_duration)
    IN  <<min_duration, max_duration>>

----------------------------------------------------------------------------
(* StackLayoutManager.LayoutHelper.  _durations is a float when the stack  *)
(* has no channels (scalar), else a defaultdict(float): d holds the keys   *)
(* present.                                                                *)

LayoutHelper(n) ==
    [ channels |-> Channels(n),
      scalar |-> Channels(n) = {},
      v |-> Zero,
      d |-> [c \in {} |-> Zero],
      direction |-> n.e.direction ]

\* LayoutHelper.__iter__: the 1-based child positions in iteration order
HelperOrder(n) ==
    IF n.e.direction = "BACKWARDS"
    THEN Reverse([k \in 1..Len(n.ch) |-> k])
    ELSE [k \in 1..Len(n.ch) |-> k]

\* reading self._durations[channel] inserts a missing key with 0.0
TouchKeys(h, chs) ==
    [h EXCEPT !.d = [c \in (DOMAIN h.d) \cup chs |->
                        IF c \in DOMAIN h.d THEN h.d[c] ELSE Zero]]

used_time(h, chs) ==
    IF h.scalar THEN [v |-> h.v, h |-> h, err |-> "none"]
    ELSE IF chs = {}
    THEN (IF DOMAIN h.d = {}
          THEN [v |-> Zero, h |-> h, err |-> "ValueError"]
          ELSE [v |-> MaxOfSet({h.d[c] : c \in DOMAIN h.d}), h |-> h,
                err |-> "none"])
    ELSE LET h1 == TouchKeys(h, chs)
         IN  [v |-> MaxOfSet({h1.d[c] : c \in chs}), h |-> h1, err |-> "none"]

total_time(h) ==
    IF h.scalar THEN [v |-> h.v, err |-> "none"]
    ELSE IF DOMAIN h.d = {} THEN [v |-> Zero, err |-> "ValueError"]
    ELSE [v |-> MaxOfSet({h.d[c] : c \in DOMAIN h.d}), err |-> "none"]

\* arrange_time with the child's duration left out of the Backwards case
arrange_time_FromEnd(h, used, child_duration, total) ==
    IF h.direction = "BACKWARDS" THEN RSub(total, used) ELSE used

arrange_time(h, used, child_duration, total) ==
    IF h.direction = "BACKWARDS"
    THEN RSub(RSub(total, used), child_duration)
    ELSE used

\* update_used that leaves the per-channel durations as they were
update_used_Stale(h, chs, duration) ==
    IF h.scalar THEN [h EXCEPT !.v = duration] ELSE h

\* update_used without the fallback to the Stack's channels
update_used_NoFallback(h, chs, duration) ==
    IF h.scalar THEN [h EXCEPT !.v = duration]
    ELSE [h EXCEPT !.d = [c \in (DOMAIN h.d) \cup chs |->
                            IF c \in chs THEN duration ELSE h.d[c]]]

update_used(h, chs, duration) ==
    IF h.scalar THEN [h EXCEPT !.v = duration]
    ELSE LET target_channels == IF chs # {} THEN chs ELSE h.channels
         IN  [h EXCEPT !.d = [c \in (DOMAIN h.d) \cup target_channels |->
                                 IF c \in target_channels THEN duration
                                 ELSE h.d[c]]]

----------------------------------------------------------------------------
(* GridLayoutManager._expand_column_width.  cols holds the 1-based         *)
(* positions of the Star columns of the span with their width / value      *)
(* ratios.                                                                 *)

RECURSIVE ExpandCollect(_, _, _, _, _)
ExpandCollect(columns, column_width, i, stop, cols) ==
    IF i >= stop \/ i >= Len(column_width) THEN [cols |-> cols, err |-> "none"]
    ELSE IF ~PyIndexOK(i, Len(columns)) THEN [cols |-> cols, err |-> "IndexError"]
    ELSE LET p == PyPos(i, Len(columns))
         IN  IF columns[p].unit # "STAR"
             THEN ExpandCollect(columns, column_width, i + 1, stop, cols)
             ELSE IF columns[p].value = Zero
             THEN [cols |-> cols, err |-> "ZeroDivisionError"]
             ELSE ExpandCollect(columns, column_width, i + 1, stop,
                      Append(cols, <<p, RDiv(column_width[p], columns[p].value)>>))

\* the columns left in the order of their index
SortedByRatio_Unsorted(cols) == cols

\* sorted(cols, key=lambda x: x[1]): a stable sort
RECURSIVE SortedByRatio(_)
SortedByRatio(cols) ==
    IF Len(cols) <= 1 THEN cols
    ELSE LET init == SortedByRatio(SubSeq(cols, 1, Len(cols) - 1))
             x == cols[Len(cols)]
             keep == {k \in 1..Len(init) : RLe(init[k][2], x[2])}
             m == IF keep = {} THEN 0 ELSE CHOOSE k \in keep : \A j \in keep : j <= k
         IN  SubSeq(init, 1, m) \o <<x>> \o SubSeq(init, m + 1, Len(init))

RECURSIVE ExpandFill(_, _, _, _, _, _)
ExpandFill(columns, column_width, cols, i, stars0, remaining0) ==
    IF i > Len(cols) THEN [w |-> column_width, err |-> "none"]
    ELSE LET next_ratio == IF i + 1 <= Len(cols) THEN cols[i + 1][2] ELSE Inf
             index == cols[i][1]
             stars == RAdd(stars0, columns[index].value)
             remaining == RAdd(remaining0, column_width[index])
             new_ratio == RDiv(remaining, stars)
         IN  IF stars = Zero THEN [w |-> column_width, err |-> "ZeroDivisionError"]
             ELSE IF RLt(new_ratio, next_ratio)
             THEN [w |-> [p \in 1..Len(column_width) |->
                            IF \E j \in 1..i : cols[j][1] = p
                            THEN RMul(new_ratio, columns[p].value)
                            ELSE column_width[p]],
                   err |-> "none"]
             ELSE ExpandFill(columns, column_width, cols, i + 1, stars, remaining)

\* _expand_column_width leaving the widths as they are
expand_column_width_Unchanged(columns, column_width, column, span, remaining) ==
    [w |-> column_width, err |-> "none"]

expand_column_width(columns, column_width, column, span, remaining) ==
    LET c == ExpandCollect(columns, column_width, column, column + span, <<>>)
    IN  IF c.err # "none" THEN [w |-> column_width, err |-> c.err]
        ELSE ExpandFill(columns, column_width, SortedByRatio(c.cols), 1, Zero,
                        remaining)

\* the column and span a grid child actually uses
ActualColumn(column, len) == IF len - 1 < column THEN len - 1 ELSE column
ActualSpan(span, column, len) ==
    LET rest == len - ActualColumn(column, len)
    IN  IF rest < span THEN rest ELSE span

\* how many of columns[i], i in range(a, b), have the unit
CountUnit(columns, a, b, unit) ==
    Cardinality({i \in a..(b - 1) : columns[PyPos(i, Len(columns))].unit = unit})

RangeOK(a, b, len) == \A i \in a..(b - 1) : PyIndexOK(i, len)

----------------------------------------------------------------------------
(* measure.  Every operator returns the node as the call leaves it, the    *)
(* value returned (v) and the exception raised, if any (err).              *)

\* v, evaluated once, handed to F
Bind(v, F(_)) == CHOOSE r \in {F(x) : x \in {v}} : TRUE

IsFlexiblePlay(e) == e.type = "Play" /\ e.flexible

\* the duration create_layout_manager hands to SimpleLayoutManager
SimpleDuration(e) == IF e.type = "Play" THEN RAdd(e.width, e.plateau) ELSE Zero

SimpleMeasureOverride(n, available_duration) ==
    [n |-> n, err |-> "none",
     v |-> IF IsFlexiblePlay(n.e) THEN n.e.width ELSE SimpleDuration(n.e)]

RECURSIVE measure(_, _)
RECURSIVE measure_override(_, _)
RECURSIVE StackMeasureLoop(_, _, _, _, _)
RECURSIVE AbsoluteMeasureLoop(_, _, _, _)
RECURSIVE GridMeasureChildren(_, _, _)

\* RepeatLayoutManager.measure_override returning before it measures the child
RepeatMeasureOverride_SkipsChild(n, available_duration) ==
    [n |-> n, v |-> Zero, err |-> "none"]

RepeatMeasureOverride(n, available_duration) ==
    LET count == n.e.count
        child_available ==
            RDiv(RSub(available_duration, RMul(n.e.spacing, Q(count - 1))),
                 Q(count))
    IN  IF count = 0 THEN [n |-> n, v |-> Zero, err |-> "none"]
        ELSE Bind(measure(n.ch[1], child_available), LAMBDA c :
             IF c.err # "none"
             THEN [n |-> [n EXCEPT !.ch[1] = c.n], v |-> Zero, err |-> c.err]
             ELSE IF c.n.lo.desired_duration = None
             THEN [n |-> [n EXCEPT !.ch[1] = c.n], v |-> Zero,
                   err |-> "AssertionError"]
             ELSE [n |-> [n EXCEPT !.ch[1] = c.n], err |-> "none",
                   v |-> RAdd(RMul(c.n.lo.desired_duration, Q(count)),
                              RMul(n.e.spacing, Q(count - 1)))])

StackMeasureLoop(n, h, order, k, available_duration) ==
    IF k > Len(order) THEN [n |-> n, h |-> h, err |-> "none"]
    ELSE Bind(used_time(h, Channels(n.ch[order[k]])), LAMBDA u :
         IF u.err # "none" THEN [n |-> n, h |-> h, err |-> u.err]
         ELSE Bind(measure(n.ch[order[k]], RSub(available_duration, u.v)),
              LAMBDA c :
              IF c.err # "none"
              THEN [n |-> [n EXCEPT !.ch[order[k]] = c.n], h |-> u.h,
                    err |-> c.err]
              ELSE IF c.n.lo.desired_duration = None
              THEN [n |-> [n EXCEPT !.ch[order[k]] = c.n], h |-> u.h,
                    err |-> "AssertionError"]
              ELSE Bind([n |-> [n EXCEPT !.ch[order[k]] = c.n],
                         h |-> update_used(u.h, Channels(n.ch[order[k]]),
                                   RAdd(c.n.lo.desired_duration, u.v))],
                   LAMBDA s :
                   StackMeasureLoop(s.n, s.h, order, k + 1,
                                    available_duration))))

StackMeasureOverride(n, available_duration) ==
    Bind(StackMeasureLoop(n, LayoutHelper(n), HelperOrder(n), 1,
                          available_duration), LAMBDA r :
    IF r.err # "none" THEN [n |-> r.n, v |-> Zero, err |-> r.err]
    ELSE Bind(total_time(r.h), LAMBDA t : [n |-> r.n, v |-> t.v, err |-> t.err]))

AbsoluteMeasureLoop(n, k, max_time, available_duration) ==
    IF k > Len(n.ch) THEN [n |-> n, v |-> max_time, err |-> "none"]
    ELSE Bind(measure(n.ch[k], available_duration), LAMBDA c :
         IF c.err # "none"
         THEN [n |-> [n EXCEPT !.ch[k] = c.n], v |-> max_time, err |-> c.err]
         ELSE IF c.n.lo.desired_duration = None
         THEN [n |-> [n EXCEPT !.ch[k] = c.n], v |-> max_time,
               err |-> "AssertionError"]
         ELSE Bind([n |-> [n EXCEPT !.ch[k] = c.n],
                    v |-> PyMax(max_time,
                                RAdd(c.n.lo.desired_duration, n.ch[k].e.time))],
              LAMBDA s :
              AbsoluteMeasureLoop(s.n, k + 1, s.v, available_duration)))

AbsoluteMeasureOverride(n, available_duration) ==
    AbsoluteMeasureLoop(n, 1, Zero, available_duration)

GridMeasureChildren(n, k, available_duration) ==
    IF k > Len(n.ch) THEN [n |-> n, err |-> "none"]
    ELSE Bind(measure(n.ch[k], available_duration), LAMBDA c :
         IF c.err # "none"
         THEN [n |-> [n EXCEPT !.ch[k] = c.n], err |-> c.err]
         ELSE Bind([n EXCEPT !.ch[k] = c.n], LAMBDA n1 :
              GridMeasureChildren(n1, k + 1, available_duration)))

\* the first loop over the children: the span-1 children widen their column
RECURSIVE GridMeasurePass1(_, _, _)
GridMeasurePass1(n, k, colsizes) ==
    IF k > Len(n.ch) THEN [w |-> colsizes, err |-> "none"]
    ELSE LET len == Len(colsizes)
             actual_column == ActualColumn(n.ch[k].e.column, len)
             actual_span == ActualSpan(n.ch[k].e.span, n.ch[k].e.column, len)
             p == PyPos(actual_column, len)
         IN  IF actual_span > 1 THEN GridMeasurePass1(n, k + 1, colsizes)
             ELSE IF ~PyIndexOK(actual_column, len)
             THEN [w |-> colsizes, err |-> "IndexError"]
             ELSE IF n.e.columns[p].unit = "SECOND"
             THEN GridMeasurePass1(n, k + 1, colsizes)
             ELSE IF n.ch[k].lo.desired_duration = None
             THEN [w |-> colsizes, err |-> "AssertionError"]
             ELSE Bind([colsizes EXCEPT ![p] =
                            PyMax(@, n.ch[k].lo.desired_duration)],
                  LAMBDA w : GridMeasurePass1(n, k + 1, w))

\* colsizes[i] += inc for the Auto columns i of range(a, b)
AddToAuto(columns, colsizes, a, b, inc) ==
    [q \in 1..Len(colsizes) |->
        IF columns[q].unit = "AUTO"
        THEN RAdd(colsizes[q],
                  RMul(inc, Q(Cardinality({i \in a..(b - 1) :
                                               PyPos(i, Len(colsizes)) = q}))))
        ELSE colsizes[q]]

\* the second loop: a child spanning several columns widens them
RECURSIVE GridMeasurePass2(_, _, _)
GridMeasurePass2(n, k, colsizes) ==
    IF k > Len(n.ch) THEN [w |-> colsizes, err |-> "none"]
    ELSE LET len == Len(colsizes)
             columns == n.e.columns
             actual_column == ActualColumn(n.ch[k].e.column, len)
             actual_span == ActualSpan(n.ch[k].e.span, n.ch[k].e.column, len)
             stop == actual_column + actual_span
             desired == n.ch[k].lo.desired_duration
             colsize == SumSeq(PySlice(colsizes, actual_column, stop))
             n_star == CountUnit(columns, actual_column, stop, "STAR")
             n_auto == CountUnit(columns, actual_column, stop, "AUTO")
             inc == RDiv(RSub(desired, colsize), Q(n_auto))
         IN  IF actual_span = 1 THEN GridMeasurePass2(n, k + 1, colsizes)
             ELSE IF desired = None THEN [w |-> colsizes, err |-> "AssertionError"]
             ELSE IF RLt(desired, colsize) THEN GridMeasurePass2(n, k + 1, colsizes)
             ELSE IF ~RangeOK(actual_column, stop, len)
             THEN [w |-> colsizes, err |-> "IndexError"]
             ELSE IF n_star = 0
             THEN (IF n_auto = 0 THEN GridMeasurePass2(n, k + 1, colsizes)
                   ELSE Bind(AddToAuto(columns, colsizes, actual_column, stop, inc),
                        LAMBDA w : GridMeasurePass2(n, k + 1, w)))
             ELSE Bind(expand_column_width(columns, colsizes, actual_column,
                                           actual_span, RSub(desired, colsize)),
                  LAMBDA x :
                  IF x.err # "none" THEN [w |-> colsizes, err |-> x.err]
                  ELSE GridMeasurePass2(n, k + 1, x.w))

\* len(self._columns) == 0: a Star(1) column is appended to the list in place
WithDefaultColumn(n) ==
    IF Len(n.e.columns) = 0
    THEN [n EXCEPT !.e.columns = Append(@, GridLengthStar(Q(1)))]
    ELSE n

InitialColsizes(columns) ==
    [p \in 1..Len(columns) |->
        IF columns[p].unit = "SECOND" THEN columns[p].value ELSE Zero]

GridMeasureOverride(n, available_duration) ==
    Bind(GridMeasureChildren(WithDefaultColumn(n), 1, available_duration),
    LAMBDA m :
    IF m.err # "none" THEN [n |-> m.n, v |-> Zero, err |-> m.err]
    ELSE Bind(GridMeasurePass1(m.n, 1, InitialColsizes(m.n.e.columns)),
         LAMBDA p1 :
         IF p1.err # "none" THEN [n |-> m.n, v |-> Zero, err |-> p1.err]
         ELSE Bind(GridMeasurePass2(m.n, 1, p1.w), LAMBDA p2 :
              IF p2.err # "none" THEN [n |-> m.n, v |-> Zero, err |-> p2.err]
              ELSE [n |-> [m.n EXCEPT !.lo.min_column_width = p2.w],
                    v |-> SumSeq(p2.w), err |-> "none"])))

measure_override(n, available_duration) ==
    CASE n.e.type = "Repeat" -> RepeatMeasureOverride(n, available_duration)
      [] n.e.type = "Stack" -> StackMeasureOverride(n, available_duration)
      [] n.e.type = "Absolute" -> AbsoluteMeasureOverride(n, available_duration)
      [] n.e.type = "Grid" -> GridMeasureOverride(n, available_duration)
      [] OTHER -> SimpleMeasureOverride(n, available_duration)

\* clamp the content budget into [min_duration, max_duration]
ContentDuration(e, duration) ==
    LET margin == RAdd(e.margin[1], e.margin[2])
        mm == minmax(e)
        content0 == PyMax(RSub(duration, margin), Zero)
    IN  PyMax(PyMin(content0, mm[2]), mm[1])

\* measure that also unsets what arrange stored
measure_Resetting(n, available_duration) ==
    Bind(measure_override(n, ContentDuration(n.e, available_duration)),
    LAMBDA r :
    LET margin == RAdd(n.e.margin[1], n.e.margin[2])
        mm == minmax(n.e)
        desired_duration == RAdd(PyMax(PyMin(r.v, mm[2]), mm[1]), margin)
    IN  IF r.err # "none" THEN [n |-> r.n, err |-> r.err]
        ELSE [n |-> [r.n EXCEPT
                       !.lo.desired_duration =
                           PyMax(PyMin(desired_duration, available_duration), Zero),
                       !.lo.unclipped_duration = PyMax(RAdd(r.v, margin), Zero),
                       !.lo.actual_time = None,
                       !.lo.actual_duration = None,
                       !.lo.measured = @ + 1,
                       !.lo.available = available_duration,
                       !.lo.bounds = mm],
              err |-> "none"])

\* measure without the clip of desired_duration against available_duration
measure_Unclipped(n, available_duration) ==
    Bind(measure_override(n, ContentDuration(n.e, available_duration)),
    LAMBDA r :
    LET margin == RAdd(n.e.margin[1], n.e.margin[2])
        mm == minmax(n.e)
        desired_duration == RAdd(PyMax(PyMin(r.v, mm[2]), mm[1]), margin)
    IN  IF r.err # "none" THEN [n |-> r.n, err |-> r.err]
        ELSE [n |-> [r.n EXCEPT
                       !.lo.desired_duration = PyMax(desired_duration, Zero),
                       !.lo.unclipped_duration = PyMax(RAdd(r.v, margin), Zero),
                       !.lo.measured = @ + 1,
                       !.lo.available = available_duration,
                       !.lo.bounds = mm],
              err |-> "none"])

measure(n, available_duration) ==
    Bind(measure_override(n, ContentDuration(n.e, available_duration)),
    LAMBDA r :
    LET margin == RAdd(n.e.margin[1], n.e.margin[2])
        mm == minmax(n.e)
        measured_duration == r.v
        desired_duration ==
            RAdd(PyMax(PyMin(measured_duration, mm[2]), mm[1]), margin)
    IN  IF r.err # "none" THEN [n |-> r.n, err |-> r.err]
        ELSE [n |-> [r.n EXCEPT
                       !.lo.desired_duration =
                           PyMax(PyMin(desired_duration, available_duration), Zero),
                       !.lo.unclipped_duration =
                           PyMax(RAdd(measured_duration, margin), Zero),
                       !.lo.measured = @ + 1,
                       !.lo.available = available_duration,
                       !.lo.bounds = mm],
              err |-> "none"])

----------------------------------------------------------------------------

(* arrange *)

SimpleArrangeOverride(n, time, final_duration) ==
    [n |-> n, err |-> "none",
     v |-> IF IsFlexiblePlay(n.e) THEN final_duration ELSE SimpleDuration(n.e)]

RECURSIVE arrange(_, _, _)
RECURSIVE arrange_override(_, _, _)
RECURSIVE StackArrangeLoop(_, _, _, _, _)
RECURSIVE AbsoluteArrangeLoop(_, _)
RECURSIVE GridArrangeLoop(_, _, _, _)

\* RepeatLayoutManager.arrange_override that never arranges the child
RepeatArrangeOverride_SkipsChild(n, time, final_duration) ==
    [n |-> n, err |-> "none",
     v |-> IF n.e.count = 0 THEN Zero ELSE final_duration]

\* Repeat's arrange_override returning final_duration for count = 0 too
RepeatArrangeOverride_KeepsDuration(n, time, final_duration) ==
    IF n.e.count = 0 THEN [n |-> n, v |-> final_duration, err |-> "none"]
    ELSE Bind(arrange(n.ch[1], Zero,
                      RDiv(RSub(final_duration,
                                RMul(n.e.spacing, Q(n.e.count - 1))),
                           Q(n.e.count))),
         LAMBDA c : [n |-> [n EXCEPT !.ch[1] = c.n], v |-> final_duration,
                     err |-> c.err])

RepeatArrangeOverride(n, time, final_duration) ==
    IF n.e.count = 0 THEN [n |-> n, v |-> Zero, err |-> "none"]
    ELSE Bind(arrange(n.ch[1], Zero,
                      RDiv(RSub(final_duration,
                                RMul(n.e.spacing, Q(n.e.count - 1))),
                           Q(n.e.count))),
         LAMBDA c : [n |-> [n EXCEPT !.ch[1] = c.n], v |-> final_duration,
                     err |-> c.err])

StackArrangeLoop(n, h, order, k, final_duration) ==
    IF k > Len(order) THEN [n |-> n, err |-> "none"]
    ELSE Bind(used_time(h, Channels(n.ch[order[k]])), LAMBDA u :
         IF u.err # "none" THEN [n |-> n, err |-> u.err]
         ELSE IF n.ch[order[k]].lo.desired_duration = None
         THEN [n |-> n, err |-> "AssertionError"]
         ELSE Bind(arrange(n.ch[order[k]],
                           arrange_time(u.h, u.v,
                                        n.ch[order[k]].lo.desired_duration,
                                        final_duration),
                           n.ch[order[k]].lo.desired_duration),
              LAMBDA c :
              IF c.err # "none"
              THEN [n |-> [n EXCEPT !.ch[order[k]] = c.n], err |-> c.err]
              ELSE Bind([n |-> [n EXCEPT !.ch[order[k]] = c.n],
                         h |-> update_used(u.h, Channels(n.ch[order[k]]),
                                   RAdd(n.ch[order[k]].lo.desired_duration,
                                        u.v))],
                   LAMBDA s :
                   StackArrangeLoop(s.n, s.h, order, k + 1, final_duration))))

StackArrangeOverride(n, time, final_duration) ==
    Bind(StackArrangeLoop(n, LayoutHelper(n), HelperOrder(n), 1,
                          final_duration),
    LAMBDA r : [n |-> r.n, v |-> final_duration, err |-> r.err])

\* Absolute's arrange loop placing every child at time 0
RECURSIVE AbsoluteArrangeLoop_AtZero(_, _)
AbsoluteArrangeLoop_AtZero(n, k) ==
    IF k > Len(n.ch) THEN [n |-> n, err |-> "none"]
    ELSE IF n.ch[k].lo.desired_duration = None
    THEN [n |-> n, err |-> "AssertionError"]
    ELSE Bind(arrange(n.ch[k], Zero, n.ch[k].lo.desired_duration),
         LAMBDA c :
         IF c.err # "none" THEN [n |-> [n EXCEPT !.ch[k] = c.n], err |-> c.err]
         ELSE Bind([n EXCEPT !.ch[k] = c.n], LAMBDA n1 :
              AbsoluteArrangeLoop_AtZero(n1, k + 1)))

AbsoluteArrangeLoop(n, k) ==
    IF k > Len(n.ch) THEN [n |-> n, err |-> "none"]
    ELSE IF n.ch[k].lo.desired_duration = None
    THEN [n |-> n, err |-> "AssertionError"]
    ELSE Bind(arrange(n.ch[k], n.ch[k].e.time, n.ch[k].lo.desired_duration),
         LAMBDA c :
         IF c.err # "none" THEN [n |-> [n EXCEPT !.ch[k] = c.n], err |-> c.err]
         ELSE Bind([n EXCEPT !.ch[k] = c.n], LAMBDA n1 :
              AbsoluteArrangeLoop(n1, k + 1)))

AbsoluteArrangeOverride(n, time, final_duration) ==
    Bind(AbsoluteArrangeLoop(n, 1),
    LAMBDA r : [n |-> r.n, v |-> final_duration, err |-> r.err])

\* colstarts: the running sums of colsizes[:-1], starting at 0.0
ColStarts(colsizes) ==
    [p \in 1..(IF Len(colsizes) = 0 THEN 1 ELSE Len(colsizes)) |->
        SumSeq(SubSeq(colsizes, 1, p - 1))]

\* the child time of arrange_override with every alignment treated as START
GridChildTime_Start(align, start, span_duration, actual_duration) == start

\* the time of a child of duration actual_duration in a span starting at start
GridChildTime(align, start, span_duration, actual_duration) ==
    CASE align = "START" -> start
      [] align = "END" -> RSub(RAdd(start, span_duration), actual_duration)
      [] align = "CENTER" ->
           RAdd(start, RDiv(RSub(span_duration, actual_duration), Q(2)))
      [] OTHER -> start

\* the duration handed to the child: its span if stretched, else its desired
\* duration, and never more than the span
GridChildDuration(align, desired, span_duration) ==
    PyMin(IF align # "STRETCH" THEN desired ELSE span_duration, span_duration)

GridArrangeLoop(n, k, colsizes, colstarts) ==
    IF k > Len(n.ch) THEN [n |-> n, err |-> "none"]
    ELSE IF n.ch[k].lo.desired_duration = None
    THEN [n |-> n, err |-> "AssertionError"]
    ELSE IF ~PyIndexOK(ActualColumn(n.ch[k].e.column, Len(colsizes)),
                       Len(colstarts))
    THEN [n |-> n, err |-> "IndexError"]
    ELSE Bind([col |-> ActualColumn(n.ch[k].e.column, Len(colsizes)),
               span |-> ActualSpan(n.ch[k].e.span, n.ch[k].e.column,
                                   Len(colsizes))],
         LAMBDA a :
         Bind([start |-> colstarts[PyPos(a.col, Len(colstarts))],
               span_duration |-> SumSeq(PySlice(colsizes, a.col, a.col + a.span))],
         LAMBDA s :
         Bind(GridChildDuration(n.ch[k].e.alignment,
                                n.ch[k].lo.desired_duration, s.span_duration),
         LAMBDA actual_duration :
         Bind(arrange(n.ch[k],
                      GridChildTime(n.ch[k].e.alignment, s.start,
                                    s.span_duration, actual_duration),
                      actual_duration),
         LAMBDA c :
         IF c.err # "none" THEN [n |-> [n EXCEPT !.ch[k] = c.n], err |-> c.err]
         ELSE Bind([n EXCEPT !.ch[k] = c.n], LAMBDA n1 :
              GridArrangeLoop(n1, k + 1, colsizes, colstarts))))))

GridArrangeOverride(n, time, final_duration) ==
    IF n.lo.min_column_width = None
    THEN [n |-> n, v |-> Zero, err |-> "AssertionError"]
    ELSE Bind(expand_column_width(n.e.columns, n.lo.min_column_width, 0,
                  Len(n.lo.min_column_width),
                  RSub(final_duration, SumSeq(n.lo.min_column_width))),
         LAMBDA x :
         IF x.err # "none" THEN [n |-> n, v |-> Zero, err |-> x.err]
         ELSE Bind(GridArrangeLoop(n, 1, x.w, ColStarts(x.w)), LAMBDA r :
              [n |-> r.n, v |-> final_duration, err |-> r.err]))

arrange_override(n, time, final_duration) ==
    CASE n.e.type = "Repeat" -> RepeatArrangeOverride(n, time, final_duration)
      [] n.e.type = "Stack" -> StackArrangeOverride(n, time, final_duration)
      [] n.e.type = "Absolute" -> AbsoluteArrangeOverride(n, time, final_duration)
      [] n.e.type = "Grid" -> GridArrangeOverride(n, time, final_duration)
      [] OTHER -> SimpleArrangeOverride(n, time, final_duration)

arrange(n, time, final_duration) ==
    IF n.lo.desired_duration = None \/ n.lo.unclipped_duration = None
    THEN [n |-> n, err |-> "AssertionError"]
    ELSE Bind(arrange_override(n, RAdd(time, n.e.margin[1]),
                               ContentDuration(n.e, final_duration)),
         LAMBDA r :
         IF r.err # "none" THEN [n |-> r.n, err |-> r.err]
         ELSE [n |-> [r.n EXCEPT !.lo.actual_duration = r.v,
                                 !.lo.actual_time = RAdd(time, n.e.margin[1]),
                                 !.lo.arranged = @ + 1],
               err |-> "none"])

----------------------------------------------------------------------------
(* _pulse_list.py: PulseList.add_pulse and delay.  The complex amplitude   *)
(* cmath.rect(amp, tau * phase) is kept as its modulus and its phase in    *)
(* cycles; multiplying by 1j adds a quarter cycle.                         *)

Envelope(shape, width, plateau) ==
    [shape |-> shape, width |-> width, plateau |-> plateau]

EnvelopeDuration(env) == RAdd(env.width, env.plateau)

\* Envelope.sample at one local time t.  Without a shape it is np.ones_like(t);
\* with a shape it is the shape's value at x on the rising and falling
\* halves (kept as the pair of the shape and x), 1 on the plateau and 0
\* elsewhere.
EnvelopeSample(env, t) ==
    LET t1 == RDiv(env.width, Q(2))
        t2 == RAdd(RDiv(env.width, Q(2)), env.plateau)
        t3 == RAdd(env.width, env.plateau)
    IN  IF env.shape = "none" THEN [value |-> Q(1)]
        ELSE IF RLe(Zero, t) /\ RLt(t, t1)
        THEN [shape |-> env.shape, x |-> RDiv(RSub(t, t1), env.width)]
        ELSE IF RLe(t1, t) /\ RLt(t, t2) THEN [value |-> Q(1)]
        ELSE IF RLe(t2, t) /\ RLt(t, t3)
        THEN [shape |-> env.shape, x |-> RDiv(RSub(t, t2), env.width)]
        ELSE [value |-> Zero]

\* add_pulse without the test of the amplitude
add_pulse_Always(pulses, env, freq_g, freq_l, time, phase, amp, drag_coef) ==
    Append(pulses,
        [ time |-> time, envelope |-> env,
          amp |-> [mod |-> amp, phase |-> phase],
          drag_amp |-> [mod |-> RMul(amp, drag_coef),
                        phase |-> RAdd(phase, <<1, 4>>)],
          freq_g |-> freq_g, freq_l |-> freq_l, delay |-> Zero ])

add_pulse(pulses, env, freq_g, freq_l, time, phase, amp, drag_coef) ==
    IF amp = Zero THEN pulses
    ELSE Append(pulses,
             [ time |-> time, envelope |-> env,
               amp |-> [mod |-> amp, phase |-> phase],
               drag_amp |-> [mod |-> RMul(amp, drag_coef),
                             phase |-> RAdd(phase, <<1, 4>>)],
               freq_g |-> freq_g, freq_l |-> freq_l, delay |-> Zero ])

delay(pulses, d) ==
    [k \in 1..Len(pulses) |->
        [pulses[k] EXCEPT !.time = RAdd(@, d), !.delay = RAdd(@, d)]]

----------------------------------------------------------------------------
(* phase_tracker.py: _ChannelStatus and PhaseTracker.  The tracker is the  *)
(* list of channel statuses; a channel argument indexes it as a Python     *)
(* list.                                                                   *)

ChannelStatus(base_freq) ==
    [base_freq |-> base_freq, delta_freq |-> Zero, phase |-> Zero,
     pulses |-> <<>>]

PhaseTracker(base_freqs) ==
    [k \in 1..Len(base_freqs) |-> ChannelStatus(base_freqs[k])]

total_freq(s) == RAdd(s.base_freq, s.delta_freq)

cs_shift_freq(s, delta, time) ==
    [s EXCEPT !.phase = RSub(@, RMul(delta, time)),
              !.delta_freq = RAdd(@, delta)]

\* set_freq moving the phase by the new frequency, not by its change
cs_set_freq_Absolute(s, freq, time) ==
    [s EXCEPT !.phase = RSub(@, RMul(freq, time)),
              !.delta_freq = freq]

cs_set_freq(s, freq, time) ==
    [s EXCEPT !.phase = RSub(@, RMul(RSub(freq, s.delta_freq), time)),
              !.delta_freq = freq]

cs_shift_phase(s, delta) == [s EXCEPT !.phase = RAdd(@, delta)]

cs_set_phase(s, phase, time) ==
    [s EXCEPT !.phase = RSub(phase, RMul(s.delta_freq, time))]

\* the tracker after tracker.<op>(...), and the exception raised, if any
TrackerOK(tr) == [tr |-> tr, err |-> "none"]
TrackerIndexError(tr) == [tr |-> tr, err |-> "IndexError"]

shift_freq(tr, channel, delta, time) ==
    IF ~PyIndexOK(channel, Len(tr)) THEN TrackerIndexError(tr)
    ELSE TrackerOK([tr EXCEPT ![PyPos(channel, Len(tr))] =
                        cs_shift_freq(@, delta, time)])

set_freq(tr, channel, freq, time) ==
    IF ~PyIndexOK(channel, Len(tr)) THEN TrackerIndexError(tr)
    ELSE TrackerOK([tr EXCEPT ![PyPos(channel, Len(tr))] =
                        cs_set_freq(@, freq, time)])

\* shift_phase shifting the phase of every channel
shift_phase_All(tr, channel, delta) ==
    IF ~PyIndexOK(channel, Len(tr)) THEN TrackerIndexError(tr)
    ELSE TrackerOK([k \in 1..Len(tr) |-> cs_shift_phase(tr[k], delta)])

shift_phase(tr, channel, delta) ==
    IF ~PyIndexOK(channel, Len(tr)) THEN TrackerIndexError(tr)
    ELSE TrackerOK([tr EXCEPT ![PyPos(channel, Len(tr))] =
                        cs_shift_phase(@, delta)])

set_phase(tr, channel, phase, time) ==
    IF ~PyIndexOK(channel, Len(tr)) THEN TrackerIndexError(tr)
    ELSE TrackerOK([tr EXCEPT ![PyPos(channel, Len(tr))] =
                        cs_set_phase(@, phase, time)])

\* swap_phase exchanging the stored phases as they are
swap_phase_Plain(tr, a, b, time) ==
    IF ~PyIndexOK(a, Len(tr)) \/ ~PyIndexOK(b, Len(tr))
    THEN TrackerIndexError(tr)
    ELSE TrackerOK([[tr EXCEPT ![PyPos(a, Len(tr))].phase =
                         tr[PyPos(b, Len(tr))].phase]
                      EXCEPT ![PyPos(b, Len(tr))].phase =
                         tr[PyPos(a, Len(tr))].phase])

swap_phase(tr, a, b, time) ==
    IF ~PyIndexOK(a, Len(tr)) \/ ~PyIndexOK(b, Len(tr))
    THEN TrackerIndexError(tr)
    ELSE LET pa == PyPos(a, Len(tr))
             pb == PyPos(b, Len(tr))
             diff == RSub(total_freq(tr[pa]), total_freq(tr[pb]))
             new_a == RSub(tr[pb].phase, RMul(diff, time))
             new_b == RAdd(tr[pa].phase, RMul(diff, time))
             tr1 == [tr EXCEPT ![pa].phase = new_a]
         IN  TrackerOK([tr1 EXCEPT ![pb].phase = new_b])

play(tr, channel, env, freq, phase, amp, drag_coef, time) ==
    IF ~PyIndexOK(channel, Len(tr)) THEN TrackerIndexError(tr)
    ELSE LET p == PyPos(channel, Len(tr))
             freq_g == total_freq(tr[p])
             total_phase == RAdd(tr[p].phase, phase)
         IN  TrackerOK([tr EXCEPT ![p].pulses =
                            add_pulse(@, env, freq_g, freq, time, total_phase,
                                      amp, drag_coef)])

finish(tr) == [k \in 1..Len(tr) |-> tr[k].pulses]

----------------------------------------------------------------------------
(* render.  w is the tracker with the log of the calls made on it; every   *)
(* logged call names the node that made it by its path from the root       *)
(* (src: the child positions on the way down).                             *)

World(tr, log) == [tr |-> tr, ops |-> log]

Call(w, r, entry) == [tr |-> r.tr, ops |-> Append(w.ops, entry)]

SimpleRenderOverride(n, time, path, w, shps) ==
    LET e == n.e
        plateau == IF e.flexible THEN RSub(n.lo.actual_duration, e.width)
                   ELSE e.plateau
        shape == IF e.shape_id = -1 THEN "none"
                 ELSE shps[PyPos(e.shape_id, Len(shps))]
        envelope == Envelope(shape, e.width, plateau)
        r == CASE e.type = "Play" ->
                    play(w.tr, e.channel_id, envelope, e.frequency, e.phase,
                         e.amplitude, e.drag_coef, time)
               [] e.type = "ShiftFrequency" ->
                    shift_freq(w.tr, e.channel_id, e.frequency, time)
               [] e.type = "SetFrequency" ->
                    set_freq(w.tr, e.channel_id, e.frequency, time)
               [] e.type = "ShiftPhase" -> shift_phase(w.tr, e.channel_id, e.phase)
               [] e.type = "SetPhase" ->
                    set_phase(w.tr, e.channel_id, e.phase, time)
               [] e.type = "SwapPhase" ->
                    swap_phase(w.tr, e.channel_id, e.channel_id2, time)
        entry == [ op |-> e.type, src |-> path, time |-> time,
                   channel |-> e.channel_id, channel2 |-> e.channel_id2,
                   envelope |-> IF e.type = "Play" THEN envelope ELSE None,
                   frequency |-> e.frequency, phase |-> e.phase,
                   amplitude |-> e.amplitude, drag_coef |-> e.drag_coef ]
    IN  IF e.type = "Barrier" THEN [n |-> n, w |-> w, err |-> "none"]
        ELSE IF e.type = "Play" /\ e.shape_id # -1
                /\ ~PyIndexOK(e.shape_id, Len(shps))
        THEN [n |-> n, w |-> w, err |-> "IndexError"]
        ELSE IF e.type = "Play" /\ n.lo.actual_duration = None
        THEN [n |-> n, w |-> w, err |-> "AssertionError"]
        ELSE [n |-> n, w |-> Call(w, r, entry), err |-> r.err]

RECURSIVE render(_, _, _, _, _)
RECURSIVE render_override(_, _, _, _, _)
RECURSIVE RepeatRenderLoop(_, _, _, _, _, _)
RECURSIVE ChildrenRenderLoop(_, _, _, _, _, _)

\* the loop of Repeat's render_override stepping by the child's duration only
RECURSIVE RepeatRenderLoop_NoSpacing(_, _, _, _, _, _)
RepeatRenderLoop_NoSpacing(n, k, child_time, path, w, shps) ==
    IF k > n.e.count THEN [n |-> n, w |-> w, err |-> "none"]
    ELSE LET c == render(n.ch[1], child_time, Append(path, 1), w, shps)
             n1 == [n EXCEPT !.ch[1] = c.n]
         IN  IF c.err # "none" THEN [n |-> n1, w |-> c.w, err |-> c.err]
             ELSE RepeatRenderLoop_NoSpacing(n1, k + 1,
                      RAdd(child_time, n.ch[1].lo.actual_duration),
                      path, c.w, shps)

RepeatRenderLoop(n, k, child_time, path, w, shps) ==
    IF k > n.e.count THEN [n |-> n, w |-> w, err |-> "none"]
    ELSE LET c == render(n.ch[1], child_time, Append(path, 1), w, shps)
             n1 == [n EXCEPT !.ch[1] = c.n]
         IN  IF c.err # "none" THEN [n |-> n1, w |-> c.w, err |-> c.err]
             ELSE RepeatRenderLoop(n1, k + 1,
                      RAdd(child_time,
                           RAdd(n.ch[1].lo.actual_duration, n.e.spacing)),
                      path, c.w, shps)

RepeatRenderOverride(n, time, path, w, shps) ==
    IF n.e.count = 0 THEN [n |-> n, w |-> w, err |-> "none"]
    ELSE IF n.ch[1].lo.actual_duration = None
    THEN [n |-> n, w |-> w, err |-> "AssertionError"]
    ELSE RepeatRenderLoop(n, 1, time, path, w, shps)

\* Stack, Absolute and Grid: for child in self.child_layouts: child.render(...)
ChildrenRenderLoop(n, k, time, path, w, shps) ==
    IF k > Len(n.ch) THEN [n |-> n, w |-> w, err |-> "none"]
    ELSE LET c == render(n.ch[k], time, Append(path, k), w, shps)
             n1 == [n EXCEPT !.ch[k] = c.n]
         IN  IF c.err # "none" THEN [n |-> n1, w |-> c.w, err |-> c.err]
             ELSE ChildrenRenderLoop(n1, k + 1, time, path, c.w, shps)

render_override(n, time, path, w, shps) ==
    CASE n.e.type = "Repeat" -> RepeatRenderOverride(n, time, path, w, shps)
      [] n.e.type \in {"Stack", "Absolute", "Grid"} ->
            ChildrenRenderLoop(n, 1, time, path, w, shps)
      [] OTHER -> SimpleRenderOverride(n, time, path, w, shps)

\* render without the visibility test
render_IgnoresVisibility(n, time, path, w, shps) ==
    IF n.lo.actual_time = None \/ n.lo.actual_duration = None
    THEN [n |-> n, w |-> w, err |-> "AssertionError"]
    ELSE render_override([n EXCEPT !.lo.rendered = @ + 1],
                         RAdd(time, n.lo.actual_time), path, w, shps)

render(n, time, path, w, shps) ==
    LET content_time == RAdd(time, n.lo.actual_time)
        r == render_override([n EXCEPT !.lo.rendered = @ + 1], content_time,
                             path, w, shps)
    IN  IF ~n.e.visibility THEN [n |-> n, w |-> w, err |-> "none"]
        ELSE IF n.lo.actual_time = None \/ n.lo.actual_duration = None
        THEN [n |-> n, w |-> w, err |-> "AssertionError"]
        ELSE r

----------------------------------------------------------------------------
(* PulseList.sample.  The sampled buffer keeps, for every sample index,    *)
(* the contributions added to it: the item (by position in the list) and   *)
(* the item-local time of the sample.  np.gradient raises ValueError on    *)
(* fewer than two samples.                                                 *)

RECURSIVE Pow2(_)
Pow2(k) == IF k = 0 THEN Q(1)
           ELSE IF k > 0 THEN RMul(Q(2), Pow2(k - 1))
           ELSE RDiv(Pow2(k + 1), Q(2))

AlignedTime(item, sample_rate, align_level) ==
    LET scaled_sample_rate == RMul(sample_rate, Pow2(-align_level))
    IN  RDiv(Q(Round(RMul(item.time, scaled_sample_rate))), scaled_sample_rate)

IStart(item, sample_rate, align_level) ==
    Floor(RMul(AlignedTime(item, sample_rate, align_level), sample_rate))

IEnd(item, sample_rate, align_level) ==
    Ceil(RMul(RAdd(AlignedTime(item, sample_rate, align_level),
                   EnvelopeDuration(item.envelope)), sample_rate))

\* phase_shift / tau = freq_g * (i_start * dt - delay), in cycles
PhaseShift(item, sample_rate, align_level) ==
    RMul(item.freq_g,
         RSub(RDiv(Q(IStart(item, sample_rate, align_level)), sample_rate),
              item.delay))

\* the 0-based half-open range of samples t[i_start:i_end] selects
ItemRange(item, length, sample_rate, align_level) ==
    SliceRange(IStart(item, sample_rate, align_level),
               IEnd(item, sample_rate, align_level), length)

RECURSIVE SampleLoop(_, _, _, _, _, _)
SampleLoop(pulses, k, y, length, sample_rate, align_level) ==
    IF k > Len(pulses) THEN [y |-> y, err |-> "none"]
    ELSE LET item == pulses[k]
             dt == RDiv(Q(1), sample_rate)
             aligned_time == AlignedTime(item, sample_rate, align_level)
             r == ItemRange(item, length, sample_rate, align_level)
         IN  IF r[2] - r[1] < 2 THEN [y |-> y, err |-> "ValueError"]
             ELSE SampleLoop(pulses, k + 1,
                      [i \in 1..length |->
                          IF r[1] <= i - 1 /\ i - 1 < r[2]
                          THEN Append(y[i],
                                   [item |-> k,
                                    t |-> RSub(RMul(Q(i - 1), dt), aligned_time)])
                          ELSE y[i]],
                      length, sample_rate, align_level)

sample(pulses, length, sample_rate, align_level) ==
    SampleLoop(pulses, 1, [i \in 1..length |-> <<>>], length, sample_rate,
               align_level)

----------------------------------------------------------------------------
(* _runner.py: run_schedule, one action per statement group.               *)

ChannelInfo(name, base_freq, sample_rate, dly, length, align_level) ==
    [name |-> name, base_freq |-> base_freq, sample_rate |-> sample_rate,
     delay |-> dly, length |-> length, align_level |-> align_level]

\* the request's schedule: the elements of the tree without the layout state
RECURSIVE Schedule(_)
Schedule(n) == [e |-> n.e, ch |-> [k \in 1..Len(n.ch) |-> Schedule(n.ch[k])]]

\* for ch, pulse_list in zip(channels, pulses): delay (in place), sample,
\* store by name
RECURSIVE WaveformLoop(_, _, _, _)
WaveformLoop(chs, tr, k, wf) ==
    IF k > Len(chs) \/ k > Len(finish(tr))
    THEN [wf |-> wf, tr |-> tr, err |-> "none"]
    ELSE LET ch == chs[k]
             tr1 == [tr EXCEPT ![k].pulses = delay(@, ch.delay)]
             s == sample(tr1[k].pulses, ch.length, ch.sample_rate,
                         ch.align_level)
             entry == [I |-> Len(s.y), Q |-> Len(s.y), y |-> s.y, channel |-> k]
         IN  IF s.err # "none" THEN [wf |-> wf, tr |-> tr1, err |-> s.err]
             ELSE WaveformLoop(chs, tr1, k + 1,
                      [nm \in (DOMAIN wf) \cup {ch.name} |->
                          IF nm = ch.name THEN entry ELSE wf[nm]])

NoWaveforms == [nm \in {} |-> <<>>]

Fail(e) ==
    /\ pc' = "failed"
    /\ err' = e

\* lm.measure(math.inf)
MeasureRoot ==
    /\ pc = "start"
    /\ LET r == measure(tree, Inf)
       IN  /\ tree' = r.n
           /\ IF r.err # "none" THEN Fail(r.err)
              ELSE IF r.n.lo.desired_duration = None THEN Fail("AssertionError")
              ELSE pc' = "measured" /\ err' = err
    /\ UNCHANGED <<channels, shapes, orig, tracker, ops, waveforms>>

\* lm.arrange(0.0, lm.desired_duration)
ArrangeRoot ==
    /\ pc = "measured"
    /\ LET r == arrange(tree, Zero, tree.lo.desired_duration)
       IN  /\ tree' = r.n
           /\ IF r.err # "none" THEN Fail(r.err)
              ELSE pc' = "arranged" /\ err' = err
    /\ UNCHANGED <<channels, shapes, orig, tracker, ops, waveforms>>

\* lm.render(0.0, phase_tracker, shapes)
RenderRoot ==
    /\ pc = "arranged"
    /\ LET r == render(tree, Zero, <<>>, World(tracker, ops), shapes)
       IN  /\ tree' = r.n
           /\ tracker' = r.w.tr
           /\ ops' = r.w.ops
           /\ IF r.err # "none" THEN Fail(r.err)
              ELSE pc' = "rendered" /\ err' = err
    /\ UNCHANGED <<channels, shapes, orig, waveforms>>

\* pulses = phase_tracker.finish(); the loop over the channels; return
SampleChannels ==
    /\ pc = "rendered"
    /\ LET r == WaveformLoop(channels, tracker, 1, NoWaveforms)
       IN  /\ tracker' = r.tr
           /\ IF r.err # "none"
              THEN Fail(r.err) /\ waveforms' = waveforms
              ELSE pc' = "done" /\ err' = err /\ waveforms' = r.wf
    /\ UNCHANGED <<channels, shapes, tree, orig, ops>>

\* a second lm.measure(available) on the arranged root
Remeasure ==
    /\ pc = "arranged"
    /\ \E available \in {Q(a) : a \in (-1)..MaxAvail} :
          LET r == measure(tree, available)
          IN  /\ tree' = r.n
              /\ IF r.err # "none" THEN Fail(r.err)
                 ELSE pc' = "remeasured" /\ err' = err
    /\ UNCHANGED <<channels, shapes, orig, tracker, ops, waveforms>>

----------------------------------------------------------------------------
(* run_simple.  Its request is kept in the state as the root Absolute of   *)
(* the leaf elements its instructions correspond to; Instructions is the   *)
(* list of pulse.py instructions run_simple is given.                      *)

\* the layout attributes an element is constructed with
DefaultLayout(e) ==
    /\ e.margin = <<Zero, Zero>>
    /\ e.alignment = "END"
    /\ e.visibility
    /\ e.duration = None
    /\ e.max_duration = Inf
    /\ e.min_duration = Zero

InstructionTypes ==
    {"Play", "ShiftPhase", "SetPhase", "ShiftFrequency", "SetFrequency",
     "SwapPhase"}

\* a root Absolute of leaf elements that stand for instructions
IsInstructionList(n) ==
    /\ n.e.type = "Absolute"
    /\ DefaultLayout(n.e)
    /\ \A k \in 1..Len(n.ch) :
          /\ n.ch[k].e.type \in InstructionTypes
          /\ n.ch[k].ch = <<>>
          /\ DefaultLayout(n.ch[k].e)
          /\ ~n.ch[k].e.flexible

\* the instruction of pulse.py with the fields of its class
Instruction(e) ==
    CASE e.type = "Play" ->
            [ type |-> "Play", time |-> e.time, channel_id |-> e.channel_id,
              shape_id |-> e.shape_id, width |-> e.width,
              plateau |-> e.plateau, frequency |-> e.frequency,
              phase |-> e.phase, amplitude |-> e.amplitude,
              drag_coef |-> e.drag_coef ]
      [] e.type = "ShiftPhase" ->
            [type |-> "ShiftPhase", channel_id |-> e.channel_id,
             phase |-> e.phase]
      [] e.type = "SetPhase" ->
            [type |-> "SetPhase", time |-> e.time,
             channel_id |-> e.channel_id, phase |-> e.phase]
      [] e.type \in {"ShiftFrequency", "SetFrequency"} ->
            [type |-> e.type, time |-> e.time, channel_id |-> e.channel_id,
             frequency |-> e.frequency]
      [] e.type = "SwapPhase" ->
            [type |-> "SwapPhase", time |-> e.time,
             channel_id1 |-> e.channel_id, channel_id2 |-> e.channel_id2]
      [] OTHER -> [type |-> e.type]

Instructions(n) == [k \in 1..Len(n.ch) |-> Instruction(n.ch[k].e)]

\* item.time read as 0 for every instruction
InstructionTime_Zero(item) == Zero

\* item.time, of the instructions that have one
InstructionTime(item) == IF item.type = "ShiftPhase" THEN None ELSE item.time

\* the log entry of the call instruction k makes on the tracker
SimpleEntry(item, k, envelope) ==
    [ op |-> item.type, src |-> <<k>>, time |-> InstructionTime(item),
      channel |-> IF item.type = "SwapPhase" THEN item.channel_id1
                  ELSE item.channel_id,
      channel2 |-> IF item.type = "SwapPhase" THEN item.channel_id2 ELSE 0,
      envelope |-> envelope,
      frequency |-> IF item.type \in {"Play", "ShiftFrequency", "SetFrequency"}
                    THEN item.frequency ELSE Zero,
      phase |-> IF item.type \in {"Play", "ShiftPhase", "SetPhase"}
                THEN item.phase ELSE Zero,
      amplitude |-> IF item.type = "Play" THEN item.amplitude ELSE Zero,
      drag_coef |-> IF item.type = "Play" THEN item.drag_coef ELSE Zero ]

\* the body of the loop over request.instructions
RunSimpleItem(item, k, w, shps) ==
    IF item.type = "Play"
    THEN IF item.shape_id # -1 /\ ~PyIndexOK(item.shape_id, Len(shps))
         THEN [w |-> w, err |-> "IndexError"]
         ELSE LET shape == IF item.shape_id = -1 THEN "none"
                           ELSE shps[PyPos(item.shape_id, Len(shps))]
                  envelope == Envelope(shape, item.width, item.plateau)
                  r == play(w.tr, item.channel_id, envelope, item.frequency,
                            item.phase, item.amplitude, item.drag_coef,
                            InstructionTime(item))
              IN  [w |-> Call(w, r, SimpleEntry(item, k, envelope)),
                   err |-> r.err]
    ELSE IF item.type \notin InstructionTypes
    THEN [w |-> w, err |-> "ValueError"]
    ELSE LET r == CASE item.type = "ShiftFrequency" ->
                        shift_freq(w.tr, item.channel_id, item.frequency,
                                   InstructionTime(item))
                   [] item.type = "SetFrequency" ->
                        set_freq(w.tr, item.channel_id, item.frequency,
                                 InstructionTime(item))
                   [] item.type = "ShiftPhase" ->
                        shift_phase(w.tr, item.channel_id, item.phase)
                   [] item.type = "SetPhase" ->
                        set_phase(w.tr, item.channel_id, item.phase,
                                  InstructionTime(item))
                   [] item.type = "SwapPhase" ->
                        swap_phase(w.tr, item.channel_id1, item.channel_id2,
                                   InstructionTime(item))
         IN  [w |-> Call(w, r, SimpleEntry(item, k, None)), err |-> r.err]

\* for item in request.instructions
RECURSIVE RunSimpleLoop(_, _, _, _)
RunSimpleLoop(instructions, k, w, shps) ==
    IF k > Len(instructions) THEN [w |-> w, err |-> "none"]
    ELSE LET r == RunSimpleItem(instructions[k], k, w, shps)
         IN  IF r.err # "none" THEN r
             ELSE RunSimpleLoop(instructions, k + 1, r.w, shps)

\* run_simple: the tracker and the loop over the instructions
RunSimpleInstructions ==
    /\ pc = "start"
    /\ IsInstructionList(tree)
    /\ LET r == RunSimpleLoop(Instructions(tree), 1, World(tracker, ops),
                              shapes)
       IN  /\ tracker' = r.w.tr
           /\ ops' = r.w.ops
           /\ IF r.err # "none" THEN Fail(r.err)
              ELSE pc' = "instructed" /\ err' = err
    /\ UNCHANGED <<channels, shapes, tree, orig, waveforms>>

\* run_simple: pulses = phase_tracker.finish(); the loop over the channels
RunSimpleSample ==
    /\ pc = "instructed"
    /\ LET r == WaveformLoop(channels, tracker, 1, NoWaveforms)
       IN  /\ tracker' = r.tr
           /\ IF r.err # "none"
              THEN Fail(r.err) /\ waveforms' = waveforms
              ELSE pc' = "simple_done" /\ err' = err /\ waveforms' = r.wf
    /\ UNCHANGED <<channels, shapes, tree, orig, ops>>

----------------------------------------------------------------------------
(* The requests the model runs *)

SeqsUpTo(S, n) == UNION {[1..k -> S] : k \in 0..n}

Leaf(e) == Node(e, <<>>)

Directions == {"BACKWARDS", "FORWARDS"}

\* leaves on channels 0 and 1
PlayA == Play(0, Q(1), -1, Q(2))
PlayB == Play(1, Q(1), 0, Q(3))

StackItems ==
    { Leaf(PlayA),
      Leaf(PlayB),
      Leaf([PlayA EXCEPT !.margin = <<Q(1), Q(1)>>]),
      Leaf([PlayA EXCEPT !.flexible = TRUE, !.min_duration = Q(3)]),
      Leaf([PlayB EXCEPT !.duration = Zero]),
      Leaf([PlayB EXCEPT !.visibility = FALSE]),
      Leaf([Barrier(<<>>) EXCEPT !.duration = Q(1)]),
      Leaf([Barrier(<<0, 1>>) EXCEPT !.duration = Q(1)]),
      Leaf(ShiftPhase(0, <<1, 4>>)) }

StackTrees ==
    { Node([Stack(d) EXCEPT !.duration = du], ch) :
        d \in Directions, du \in {None, Q(1)},
        ch \in SeqsUpTo(StackItems, MaxChildren) }

AbsoluteItems ==
    { Leaf([e EXCEPT !.time = t]) :
        e \in { PlayA, ShiftFrequency(0, Q(1)) }, t \in {Zero, Q(1)} }
    \cup
    { Leaf([PlayB EXCEPT !.amplitude = Zero]),
      Leaf([PlayA EXCEPT !.duration = Q(1), !.drag_coef = Q(1), !.time = Q(1)]),
      Leaf([SetFrequency(1, Q(2)) EXCEPT !.time = Q(1)]),
      Leaf(SetPhase(0, <<1, 2>>)),
      Leaf([SwapPhase(0, 1) EXCEPT !.time = Q(1)]),
      Leaf([PlayA EXCEPT !.time = Q(-3)]) }

AbsoluteTrees ==
    { Node([Absolute EXCEPT !.margin = m], ch) :
        m \in {<<Zero, Zero>>, <<Q(1), Zero>>},
        ch \in SeqsUpTo(AbsoluteItems, MaxChildren) }

ColumnLists ==
    { <<>>,
      <<GridLengthStar(Q(1)), GridLengthStar(Q(2))>>,
      <<GridLengthAuto, GridLengthStar(Q(1))>>,
      <<GridLengthAbs(Q(1)), GridLengthAuto>> }

GridItems ==
    { Leaf([e EXCEPT !.column = cs[1], !.span = cs[2]]) :
        e \in { PlayA,
                [PlayB EXCEPT !.flexible = TRUE, !.alignment = "STRETCH"],
                [PlayA EXCEPT !.alignment = "CENTER", !.width = Q(1)] },
        cs \in {<<0, 1>>, <<1, 1>>, <<0, 2>>} }

GridTrees ==
    { Node(Grid(cols), ch) :
        cols \in ColumnLists, ch \in SeqsUpTo(GridItems, MaxChildren) }
    \cup
    { Node([Grid(cols) EXCEPT !.duration = Q(6)], ch) :
        cols \in {<<GridLengthStar(Q(1)), GridLengthStar(Q(2))>>,
                  <<GridLengthAbs(Q(1)), GridLengthAuto>>},
        ch \in SeqsUpTo(GridItems, MaxChildren) }

\* Grid children whose column or span lies below the range of the columns
GridClipTrees ==
    { Node(Grid(cols), <<Leaf([PlayA EXCEPT !.column = cs[1], !.span = cs[2]])>>
                       \o rest) :
        cols \in {<<GridLengthStar(Q(1)), GridLengthStar(Q(2))>>,
                  <<GridLengthAbs(Q(1)), GridLengthAuto>>},
        cs \in {<<-1, 1>>, <<0, 0>>, <<1, -1>>},
        rest \in {<<>>, <<Leaf([PlayA EXCEPT !.width = Q(1)])>>} }

\* two Star columns, a 20 ns Play in column 0 and a 40 ns Play in column 1,
\* 90 ns for the Grid (times in ns)
GridExample ==
    Node([Grid(<<GridLengthStar(Q(1)), GridLengthStar(Q(2))>>)
              EXCEPT !.duration = Q(90)],
         << Leaf([Play(0, Q(1), -1, Q(20)) EXCEPT !.column = 0, !.span = 1]),
            Leaf([Play(1, Q(1), -1, Q(40)) EXCEPT !.column = 1, !.span = 1]) >>)

\* elements whose channel id or shape id is not an index of the request's
\* channels or shapes
BadIdTrees ==
    { Node(Absolute, <<Leaf(e)>>) :
        e \in { Play(-1, Q(1), -1, Q(2)), Play(2, Q(1), -1, Q(2)),
                Play(0, Q(1), 1, Q(2)), Play(0, Q(1), -2, Q(2)),
                ShiftPhase(-2, <<1, 2>>), SwapPhase(0, 2) } }

\* Grids of two Star columns arranged with a little more than they measure
GridFillTrees ==
    { Node([Grid(<<GridLengthStar(Q(1)), GridLengthStar(Q(2))>>)
                EXCEPT !.duration = Q(3)], ch) :
        ch \in { <<Leaf([PlayA EXCEPT !.column = 0])>>,
                 <<Leaf([PlayA EXCEPT !.column = 1])>>,
                 <<Leaf([PlayA EXCEPT !.column = 0, !.width = Q(1)]),
                   Leaf([PlayA EXCEPT !.column = 1])>> } }

\* Grids arranged with less than their columns measure
GridShrinkTrees ==
    { Node([Grid(cols) EXCEPT !.duration = Q(1)],
           <<Leaf([PlayA EXCEPT !.column = 0, !.alignment = al]),
             Leaf([PlayA EXCEPT !.column = 1, !.alignment = al])>>) :
        cols \in {<<GridLengthStar(Q(1)), GridLengthStar(Q(2))>>,
                  <<GridLengthAbs(Q(2)), GridLengthStar(Q(1))>>},
        al \in {"END", "START"} }

RepeatTrees ==
    { Node([Repeat(c, sp) EXCEPT !.duration = du], <<child>>) :
        c \in 0..MaxCount, sp \in {Zero, Q(1)}, du \in {None, Q(4)},
        child \in StackItems }

\* small containers to nest
InnerLeaves ==
    { Leaf(PlayA), Leaf([PlayB EXCEPT !.margin = <<Zero, Q(1)>>]),
      Leaf(Barrier(<<>>)) }

InnerTrees ==
    { Node([Stack(d) EXCEPT !.duration = du], ch) :
        d \in Directions, du \in {None, Q(1)}, ch \in SeqsUpTo(InnerLeaves, 2) }
    \cup
    { Node(Repeat(c, sp), <<child>>) :
        c \in 0..MaxCount, sp \in {Zero, Q(1)}, child \in InnerLeaves }
    \cup
    { Node(Grid(cols), <<child>>) :
        cols \in {<<>>, <<GridLengthAuto, GridLengthStar(Q(1))>>},
        child \in InnerLeaves }
    \cup
    { Node(Absolute, <<[child EXCEPT !.e.time = Q(1)]>>) : child \in InnerLeaves }

Outers ==
    { Stack("BACKWARDS"), [Stack("FORWARDS") EXCEPT !.duration = Q(2)],
      Absolute, Grid(<<>>), Repeat(2, Q(1)), Repeat(0, Zero) }

\* a Repeat has one child
NestedTrees ==
    { Node(o, <<[inner EXCEPT !.e.visibility = v]>> \o rest) :
        o \in Outers \ {Repeat(2, Q(1)), Repeat(0, Zero)},
        inner \in InnerTrees, v \in BOOLEAN,
        rest \in {<<>>, <<Leaf(PlayA)>>} }
    \cup
    { Node(o, <<[inner EXCEPT !.e.visibility = v]>>) :
        o \in {Repeat(2, Q(1)), Repeat(0, Zero)},
        inner \in InnerTrees, v \in BOOLEAN }

Trees == StackTrees \cup AbsoluteTrees \cup GridTrees \cup RepeatTrees
         \cup NestedTrees \cup GridClipTrees
         \cup {GridExample} \cup BadIdTrees \cup GridFillTrees \cup GridShrinkTrees

DefaultChannels ==
    << ChannelInfo("a", Zero, Q(1), Zero, MaxLength, 0),
       ChannelInfo("b", Q(1), Q(1), Zero, MaxLength, 0) >>

\* requests that vary the channel list over a short schedule
ChannelLists ==
    { << ChannelInfo("a", Zero, sr, Zero, la, 0),
         ChannelInfo(nb, Q(1), sr, Zero, lb, 0) >> :
        nb \in {"a", "b"}, sr \in {Q(1), Q(2)},
        la \in {0, 2, MaxLength}, lb \in {0, 2, MaxLength} }
    \cup {<<>>, <<ChannelInfo("a", Zero, Q(1), Zero, MaxLength, 0)>>,
          <<ChannelInfo("a", Zero, Q(1), Zero, MaxLength, -1)>>}

ChannelTrees ==
    { Node(Absolute, ch) :
        ch \in SeqsUpTo({Leaf([PlayA EXCEPT !.time = Q(1)]), Leaf(PlayB),
                         Leaf([PlayA EXCEPT !.time = <<1, 2>>])}, 2) }

Init ==
    /\ pc = "start"
    /\ err = "none"
    /\ \/ tree \in Trees /\ channels = DefaultChannels
       \/ tree \in ChannelTrees /\ channels \in ChannelLists
    /\ shapes = <<"hann">>
    /\ orig = Schedule(tree)
    /\ tracker = PhaseTracker([k \in 1..Len(channels) |-> channels[k].base_freq])
    /\ ops = <<>>
    /\ waveforms = NoWaveforms

Next ==
    \/ MeasureRoot
    \/ ArrangeRoot
    \/ RenderRoot
    \/ SampleChannels
    \/ Remeasure
    \/ RunSimpleInstructions
    \/ RunSimpleSample

Spec == Init /\ [][Next]_vars

----------------------------------------------------------------------------
(* The nodes of the tree, by their path from the root *)

RECURSIVE Paths(_)
Paths(n) ==
    {<<>>} \cup UNION {{<<k>> \o p : p \in Paths(n.ch[k])} : k \in 1..Len(n.ch)}

RECURSIVE NodeAt(_, _)
NodeAt(n, p) == IF p = <<>> THEN n ELSE NodeAt(n.ch[p[1]], Tail(p))

Prefixes(p) == {SubSeq(p, 1, k) : k \in 0..Len(p)}

----------------------------------------------------------------------------
(* Properties *)

\* C1: what run_schedule returns holds one (I, Q) pair for every channel of
\* the request, as many entries as there are channels, and both arrays of a
\* channel have that channel's declared length.
C1_OnePairPerChannel ==
    pc = "done" =>
        /\ Cardinality(DOMAIN waveforms) = Len(channels)
        /\ \A k \in 1..Len(channels) :
              /\ channels[k].name \in DOMAIN waveforms
              /\ waveforms[channels[k].name].I = channels[k].length
              /\ waveforms[channels[k].name].Q = channels[k].length

\* C2: no layout assertion fails, and every node is measured before it is
\* arranged (desired_duration set), and arranged before it is rendered
\* (actual_time and actual_duration set).
C2_LifecycleOrder ==
    /\ err # "AssertionError"
    /\ \A p \in Paths(tree) :
          /\ NodeAt(tree, p).lo.arranged > 0 =>
                /\ NodeAt(tree, p).lo.measured > 0
                /\ NodeAt(tree, p).lo.desired_duration # None
          /\ NodeAt(tree, p).lo.rendered > 0 =>
                /\ NodeAt(tree, p).lo.arranged > 0
                /\ NodeAt(tree, p).lo.actual_time # None
                /\ NodeAt(tree, p).lo.actual_duration # None

\* a node two levels below the root has been rendered
C2_Witness ==
    /\ pc = "rendered"
    /\ \E p \in Paths(tree) : Len(p) = 2 /\ NodeAt(tree, p).lo.rendered > 0

\* C3 as claimed: after a second measure of the arranged root with another
\* available duration, actual_time and actual_duration are unset again.
C3_RemeasureResets ==
    pc = "remeasured" =>
        tree.lo.actual_time = None /\ tree.lo.actual_duration = None

\* C3 as amended: a second measure of the arranged root leaves actual_time and
\* actual_duration of every node as the last arrange set them.
C3_RemeasureKeepsArrangement ==
    [][pc' = "remeasured" =>
          /\ tree'.lo.actual_time # None
          /\ tree'.lo.actual_duration # None
          /\ \A p \in Paths(tree) :
                /\ NodeAt(tree', p).lo.actual_time = NodeAt(tree, p).lo.actual_time
                /\ NodeAt(tree', p).lo.actual_duration =
                       NodeAt(tree, p).lo.actual_duration]_vars

\* the second measure shrank desired_duration below the arranged duration
C3_Witness ==
    /\ pc = "remeasured"
    /\ tree.lo.actual_duration # None
    /\ RLt(tree.lo.desired_duration, tree.lo.actual_duration)

\* C4: after measure(available) on a node, 0 <= desired_duration <=
\* max(available, 0) and unclipped_duration >= 0.
C4_DesiredWithinAvailable ==
    \A p \in Paths(tree) :
        NodeAt(tree, p).lo.measured > 0 =>
            /\ RLe(Zero, NodeAt(tree, p).lo.desired_duration)
            /\ RLe(NodeAt(tree, p).lo.desired_duration,
                   PyMax(NodeAt(tree, p).lo.available, Zero))
            /\ RLe(Zero, NodeAt(tree, p).lo.unclipped_duration)

\* a node measured against a negative available duration, below a root
\* measured against +infinity or a finite duration
C4_Witness ==
    \E p \in Paths(tree) :
        /\ NodeAt(tree, p).lo.measured > 0
        /\ RLt(NodeAt(tree, p).lo.available, Zero)
        /\ RLt(Zero, NodeAt(tree, p).lo.unclipped_duration)

\* clamp(x, [lo, hi]) of the specification
Clamp(x, lo, hi) == PyMax(PyMin(x, hi), lo)

\* C5: the bounds measure uses are min_d = clamp(duration or 0) and
\* max_d = clamp(duration or +infinity), where a duration of 0 is a duration.
C5_EffectiveBounds ==
    \A p \in Paths(tree) :
        NodeAt(tree, p).lo.measured > 0 =>
            NodeAt(tree, p).lo.bounds =
                << Clamp(IF NodeAt(tree, p).e.duration = None THEN Zero
                         ELSE NodeAt(tree, p).e.duration,
                         NodeAt(tree, p).e.min_duration,
                         NodeAt(tree, p).e.max_duration),
                   Clamp(IF NodeAt(tree, p).e.duration = None THEN Inf
                         ELSE NodeAt(tree, p).e.duration,
                         NodeAt(tree, p).e.min_duration,
                         NodeAt(tree, p).e.max_duration) >>

\* the driver is past arrange and the layout is as arrange left it
Arranged == pc \in {"arranged", "rendered", "done"}

\* some node above the node at p is a Repeat with count = 0
BelowEmptyRepeat(p) ==
    \E q \in Prefixes(p) :
        /\ q # p
        /\ NodeAt(tree, q).e.type = "Repeat"
        /\ NodeAt(tree, q).e.count = 0

\* C6 as claimed: after the root has been measured and arranged, every node
\* has actual_time and actual_duration set, and actual_duration >= 0.
C6_EveryNodeArranged ==
    Arranged =>
        \A p \in Paths(tree) :
            /\ NodeAt(tree, p).lo.actual_time # None
            /\ NodeAt(tree, p).lo.actual_duration # None
            /\ RLe(Zero, NodeAt(tree, p).lo.actual_duration)

\* C6 as amended: after the root has been measured and arranged, every node
\* that is not below a Repeat with count = 0 has actual_time and
\* actual_duration set, and actual_duration >= 0; the nodes below a Repeat
\* with count = 0 are not arranged.
C6_ArrangedUnlessBelowEmptyRepeat ==
    Arranged =>
        \A p \in Paths(tree) :
            IF BelowEmptyRepeat(p)
            THEN /\ NodeAt(tree, p).lo.arranged = 0
                 /\ NodeAt(tree, p).lo.actual_time = None
                 /\ NodeAt(tree, p).lo.actual_duration = None
            ELSE /\ NodeAt(tree, p).lo.arranged > 0
                 /\ NodeAt(tree, p).lo.actual_time # None
                 /\ NodeAt(tree, p).lo.actual_duration # None
                 /\ RLe(Zero, NodeAt(tree, p).lo.actual_duration)

\* an arranged tree of depth two, one branch of it below a Repeat with count 0
C6_Witness ==
    /\ pc = "arranged"
    /\ \E p \in Paths(tree) : Len(p) = 2 /\ BelowEmptyRepeat(p)
    /\ \E p \in Paths(tree) : Len(p) = 1 /\ NodeAt(tree, p).lo.arranged > 0

\* C7: run_schedule does not modify the schedule of its request (the columns
\* lists of the Grid elements included).
C7_RequestUnchanged == Schedule(tree) = orig

\* C8: no tracker operation is performed for an invisible element or for a
\* descendant of one, and render_override is entered on none of them.
C8_InvisibleNotRendered ==
    /\ \A i \in 1..Len(ops) :
          \A q \in Prefixes(ops[i].src) : NodeAt(tree, q).e.visibility
    /\ \A p \in Paths(tree) :
          NodeAt(tree, p).lo.rendered > 0 =>
              \A q \in Prefixes(p) : NodeAt(tree, q).e.visibility

\* rendering has passed an invisible container that holds elements with
\* channels, and has made tracker calls for a visible element
C8_Witness ==
    /\ pc = "rendered"
    /\ ops # <<>>
    /\ \E p \in Paths(tree) :
          /\ ~NodeAt(tree, p).e.visibility
          /\ NodeAt(tree, p).ch # <<>>
          /\ Channels(NodeAt(tree, p)) # {}

\* the arranged Stack nodes of the tree
ArrangedStacks ==
    { NodeAt(tree, p) : p \in { q \in Paths(tree) :
          /\ NodeAt(tree, q).e.type = "Stack"
          /\ NodeAt(tree, q).lo.arranged > 0 } }

\* the slot arrange gave a child, relative to the parent's content start
SlotStart(c) == RSub(c.lo.actual_time, c.e.margin[1])
SlotEnd(c) == RAdd(SlotStart(c), c.lo.desired_duration)

\* where the child's content ends
ContentEnd(c) == RAdd(c.lo.actual_time, c.lo.actual_duration)

\* C9 as claimed: in a Backwards Stack every child ends at or before the
\* Stack's actual_duration, and in a Forwards Stack every child starts at or
\* after 0, relative to the Stack's content start.
C9_ChildInsideStack ==
    Arranged =>
        \A s \in ArrangedStacks : \A k \in 1..Len(s.ch) :
            IF s.e.direction = "BACKWARDS"
            THEN RLe(ContentEnd(s.ch[k]), s.lo.actual_duration)
            ELSE RLe(Zero, s.ch[k].lo.actual_time)

\* C9 as amended: in a Backwards Stack every child's slot ends at or before
\* the Stack's actual_duration, and so does the child whenever its
\* actual_duration and margins fit its desired_duration; in a Forwards Stack
\* every child starts at or after 0.
C9_SlotInsideStack ==
    Arranged =>
        \A s \in ArrangedStacks : \A k \in 1..Len(s.ch) :
            IF s.e.direction = "BACKWARDS"
            THEN /\ RLe(SlotEnd(s.ch[k]), s.lo.actual_duration)
                 /\ RLe(RAdd(s.ch[k].lo.actual_duration,
                             RAdd(s.ch[k].e.margin[1], s.ch[k].e.margin[2])),
                        s.ch[k].lo.desired_duration)
                        => RLe(ContentEnd(s.ch[k]), s.lo.actual_duration)
            ELSE RLe(Zero, s.ch[k].lo.actual_time)

\* a Backwards Stack whose child was given a slot shorter than it plays
C9_Witness ==
    /\ pc = "arranged"
    /\ \E s \in ArrangedStacks : \E k \in 1..Len(s.ch) :
          /\ s.e.direction = "BACKWARDS"
          /\ Len(s.ch) = 2
          /\ RLt(Zero, s.ch[k].lo.desired_duration)
          /\ RLt(s.ch[k].lo.desired_duration, s.ch[k].lo.actual_duration)

\* the children iterated before the k-th that move its frontier: those that
\* share a channel with it and those without channels (which move every
\* channel's frontier)
MovesFrontier(s, j, k) ==
    LET a == Channels(s.ch[HelperOrder(s)[j]])
        b == Channels(s.ch[HelperOrder(s)[k]])
    IN  a = {} \/ b = {} \/ a \cap b # {}

\* the frontier the k-th iterated child of the Stack meets
RECURSIVE Frontier(_, _)
Frontier(s, k) ==
    MaxOfSet({Zero} \cup
             { RAdd(Frontier(s, j), s.ch[HelperOrder(s)[j]].lo.desired_duration) :
                 j \in {i \in 1..(k - 1) : MovesFrontier(s, i, k)} })

\* C10: the slot of a Stack's child with channels starts at the frontier of
\* its channels (Forwards) or ends at total minus that frontier (Backwards),
\* the frontier being 0 or the end of the latest slot placed before it on one
\* of its channels; the slots of two children that share a channel do not
\* overlap.
C10_PerChannelFrontier ==
    Arranged =>
        \A s \in ArrangedStacks :
            /\ \A k \in 1..Len(s.ch) :
                  Channels(s.ch[HelperOrder(s)[k]]) # {} =>
                      IF s.e.direction = "BACKWARDS"
                      THEN SlotEnd(s.ch[HelperOrder(s)[k]]) =
                               RSub(s.lo.actual_duration, Frontier(s, k))
                      ELSE SlotStart(s.ch[HelperOrder(s)[k]]) = Frontier(s, k)
            /\ \A i, j \in 1..Len(s.ch) :
                  (i # j /\ Channels(s.ch[i]) \cap Channels(s.ch[j]) # {}) =>
                      \/ RLe(SlotEnd(s.ch[i]), SlotStart(s.ch[j]))
                      \/ RLe(SlotEnd(s.ch[j]), SlotStart(s.ch[i]))

\* a Stack with two children of positive duration on one channel
C10_Witness ==
    /\ pc = "arranged"
    /\ \E s \in ArrangedStacks :
          /\ Len(s.ch) = 2
          /\ Channels(s.ch[1]) \cap Channels(s.ch[2]) # {}
          /\ RLt(Zero, s.ch[1].lo.desired_duration)
          /\ RLt(Zero, s.ch[2].lo.desired_duration)

\* C11: measuring and arranging a tree never raises on a Stack child without
\* channels: a run that ends in ValueError has its root arranged (the error
\* comes from sampling, after the layout is complete).
C11_ChannellessChildPlaced ==
    (pc = "failed" /\ err = "ValueError") => tree.lo.arranged > 0

\* the LayoutHelper of the Stack after its first k iterated children have been
\* processed, as measure_override and arrange_override drive it
RECURSIVE HelperAfter(_, _)
HelperAfter(s, k) ==
    IF k = 0 THEN LayoutHelper(s)
    ELSE update_used(
             used_time(HelperAfter(s, k - 1),
                       Channels(s.ch[HelperOrder(s)[k]])).h,
             Channels(s.ch[HelperOrder(s)[k]]),
             RAdd(s.ch[HelperOrder(s)[k]].lo.desired_duration,
                  used_time(HelperAfter(s, k - 1),
                            Channels(s.ch[HelperOrder(s)[k]])).v))

\* self._durations[c] of a defaultdict(float)
UsedOf(h, c) == IF c \in DOMAIN h.d THEN h.d[c] ELSE Zero

\* the k-th iterated child is a Barrier without channels in a Stack that has
\* channels
ChannellessBarrierAt(s, k) ==
    /\ s.ch[HelperOrder(s)[k]].e.type = "Barrier"
    /\ Channels(s.ch[HelperOrder(s)[k]]) = {}
    /\ Channels(s) # {}

IsPrefix(q, p) == Len(q) <= Len(p) /\ SubSeq(p, 1, Len(q)) = q

\* the tracker operations emitted by the nodes at or below the path q
OpsBelow(q) == SelectSeq(ops, LAMBDA o : IsPrefix(q, o.src))

\* the Repeats of the tree with count >= 1, by path
RepeatPaths ==
    {p \in Paths(tree) : /\ NodeAt(tree, p).e.type = "Repeat"
                         /\ NodeAt(tree, p).e.count >= 1}

\* n * child.desired_duration + spacing * (n - 1)
RepeatContent(r) ==
    RAdd(RMul(r.ch[1].lo.desired_duration, Q(r.e.count)),
         RMul(r.e.spacing, Q(r.e.count - 1)))

\* the number of operations one rendering of the Repeat's child emits
CopyLength(p) ==
    IF NodeAt(tree, p).ch[1].lo.rendered = 0 THEN 0
    ELSE Len(OpsBelow(Append(p, 1))) \div NodeAt(tree, p).ch[1].lo.rendered

\* C13 (measure, arrange): a Repeat with count n >= 1 and spacing s measures
\* its child once and arranges it once per measure and arrange of its own, and
\* its measured content duration is n * child.desired_duration + s * (n - 1).
C13_RepeatLayout ==
    pc # "failed" =>
        \A p \in RepeatPaths :
            /\ NodeAt(tree, p).ch[1].lo.measured = NodeAt(tree, p).lo.measured
            /\ NodeAt(tree, p).ch[1].lo.arranged = NodeAt(tree, p).lo.arranged
            /\ NodeAt(tree, p).lo.measured > 0 =>
                  NodeAt(tree, p).lo.unclipped_duration =
                      PyMax(RAdd(RepeatContent(NodeAt(tree, p)),
                                 RAdd(NodeAt(tree, p).e.margin[1],
                                      NodeAt(tree, p).e.margin[2])), Zero)

\* C13 (render): every rendering of a Repeat with count n >= 1 renders its
\* child n times, each copy emits the operations of the copy before it moved
\* by child.actual_duration + s, and the first copy of a rendering starts at
\* the Repeat's content time.
C13_RepeatCopies ==
    pc \in {"rendered", "done"} =>
        \A p \in RepeatPaths :
            /\ NodeAt(tree, p).ch[1].e.visibility =>
                  NodeAt(tree, p).ch[1].lo.rendered =
                      NodeAt(tree, p).e.count * NodeAt(tree, p).lo.rendered
            /\ Len(OpsBelow(Append(p, 1))) =
                  CopyLength(p) * NodeAt(tree, p).ch[1].lo.rendered
            /\ \A i \in 1..(Len(OpsBelow(Append(p, 1))) - CopyLength(p)) :
                  ((i - 1) \div CopyLength(p)) % NodeAt(tree, p).e.count
                        # NodeAt(tree, p).e.count - 1
                  => OpsBelow(Append(p, 1))[i + CopyLength(p)] =
                        [OpsBelow(Append(p, 1))[i] EXCEPT
                            !.time = RAdd(@, RAdd(NodeAt(tree, p).ch[1].lo.actual_duration,
                                                  NodeAt(tree, p).e.spacing))]
            /\ (p = <<>> /\ OpsBelow(<<1>>) # <<>> /\ tree.ch[1].ch = <<>>) =>
                  OpsBelow(<<1>>)[1].time =
                      RAdd(tree.lo.actual_time, tree.ch[1].lo.actual_time)

\* C13: a Repeat with count n >= 1 and spacing s measures and arranges its
\* child once, measures to n * child.desired_duration + s * (n - 1) and renders
\* n copies of the child, the k-th at k * (child.actual_duration + s).
C13_Repeat == C13_RepeatLayout /\ C13_RepeatCopies

\* a Repeat with count 2 and spacing 1 has rendered two copies of a Play
C13_Witness ==
    /\ pc = "rendered"
    /\ \E p \in RepeatPaths :
          /\ NodeAt(tree, p).e.count = 2
          /\ NodeAt(tree, p).e.spacing = Q(1)
          /\ NodeAt(tree, p).ch[1].e.type = "Play"
          /\ Len(OpsBelow(Append(p, 1))) = 2
          /\ NodeAt(tree, p).lo.measured = 1

\* the Repeats of the tree with count = 0, by path
EmptyRepeatPaths ==
    {p \in Paths(tree) : /\ NodeAt(tree, p).e.type = "Repeat"
                         /\ NodeAt(tree, p).e.count = 0}

\* C14: a Repeat with count = 0 measures to a content duration of zero, is
\* arranged to actual_duration 0, and neither it nor anything below it emits a
\* tracker operation, whatever its child is.
C14_EmptyRepeat ==
    \A p \in EmptyRepeatPaths :
        /\ NodeAt(tree, p).lo.measured > 0 =>
              NodeAt(tree, p).lo.unclipped_duration =
                  PyMax(RAdd(NodeAt(tree, p).e.margin[1],
                             NodeAt(tree, p).e.margin[2]), Zero)
        /\ NodeAt(tree, p).lo.arranged > 0 =>
              NodeAt(tree, p).lo.actual_duration = Zero
        /\ OpsBelow(p) = <<>>
        /\ NodeAt(tree, p).ch[1].lo.rendered = 0

\* a visible Repeat with count 0, a set duration and a Play below it has been
\* rendered
C14_Witness ==
    /\ pc = "rendered"
    /\ \E p \in EmptyRepeatPaths :
          /\ NodeAt(tree, p).lo.rendered > 0
          /\ NodeAt(tree, p).e.duration = Q(4)
          /\ NodeAt(tree, p).ch[1].e.type = "Play"

\* the measured Absolute nodes of the tree
MeasuredAbsolutes ==
    {n \in {NodeAt(tree, p) : p \in Paths(tree)} :
        n.e.type = "Absolute" /\ n.lo.measured > 0}

\* the end times time + desired_duration of the children of an Absolute
ChildEnds(n) ==
    {RAdd(n.ch[k].lo.desired_duration, n.ch[k].e.time) : k \in 1..Len(n.ch)}

\* every child of the Absolute is measured against the duration its
\* measure_override was given
AbsoluteMeasuresChildren(n) ==
    \A k \in 1..Len(n.ch) :
        /\ n.ch[k].lo.measured = n.lo.measured
        /\ n.ch[k].lo.available = ContentDuration(n.e, n.lo.available)

\* every child of the Absolute is where arranging it alone at its own time
\* with its desired duration puts it
AbsoluteArrangesChildren(n) ==
    (Arranged /\ n.lo.arranged > 0) =>
        \A k \in 1..Len(n.ch) :
            /\ n.ch[k].lo.arranged = n.lo.arranged
            /\ n.ch[k].lo.actual_time =
                  RAdd(n.ch[k].e.time, n.ch[k].e.margin[1])
            /\ n.ch[k].lo.actual_duration =
                  arrange(n.ch[k], n.ch[k].e.time,
                          n.ch[k].lo.desired_duration).n.lo.actual_duration

ArrangedGrids ==
    {n \in {NodeAt(tree, p) : p \in Paths(tree)} :
        n.e.type = "Grid" /\ n.lo.arranged > 0}

\* column clipped to [0, len - 1], span clipped to [1, len - column]
ClippedColumn(column, len) ==
    IF column < 0 THEN 0 ELSE IF column > len - 1 THEN len - 1 ELSE column

ClippedSpan(span, column, len) ==
    IF span < 1 THEN 1
    ELSE IF span > len - ClippedColumn(column, len)
    THEN len - ClippedColumn(column, len)
    ELSE span

\* the Grid with the column and the span of every child clipped
Clipped(n) ==
    [n EXCEPT !.ch =
        [k \in 1..Len(n.ch) |->
            [n.ch[k] EXCEPT
                !.e.column = ClippedColumn(n.ch[k].e.column, Len(n.e.columns)),
                !.e.span = ClippedSpan(n.ch[k].e.span, n.ch[k].e.column,
                                       Len(n.e.columns))]]]

\* the column widths arrange_override works with
FinalColsizes(n) ==
    expand_column_width(n.e.columns, n.lo.min_column_width, 0,
                        Len(n.lo.min_column_width),
                        RSub(n.lo.actual_duration,
                             SumSeq(n.lo.min_column_width))).w

\* C16: the column and the span a Grid uses for a child are the requested
\* ones clipped to [0, len - 1] and [1, len - column], in measure and in
\* arrange: the column widths measured and the places of the children are
\* those of the Grid whose children carry the clipped values.
C16_ColumnSpanClipped ==
    pc = "arranged" =>
        \A n \in ArrangedGrids :
            /\ n.lo.min_column_width =
                  GridMeasurePass2(Clipped(n), 1,
                      GridMeasurePass1(Clipped(n), 1,
                                       InitialColsizes(n.e.columns)).w).w
            /\ \A k \in 1..Len(n.ch) :
                  GridArrangeLoop(Clipped(n), 1, FinalColsizes(n),
                                  ColStarts(FinalColsizes(n))).n.ch[k].lo.actual_time
                      = n.ch[k].lo.actual_time

\* some column of the Grid is a Star column
HasStar(n) == \E q \in 1..Len(n.e.columns) : n.e.columns[q].unit = "STAR"

\* C17 as claimed: the final column widths of an arranged Grid with a
\* non-empty column list add up to the Grid's arranged content duration.
C17_WidthsFillGrid ==
    pc = "arranged" =>
        \A n \in ArrangedGrids :
            Len(n.e.columns) > 0 =>
                SumSeq(FinalColsizes(n)) = n.lo.actual_duration

\* C17 as amended: the final column widths of an arranged Grid with at least
\* one Star column and a finite arranged content duration add up to that
\* duration.
C17_WidthsFillStarGrid ==
    pc = "arranged" =>
        \A n \in ArrangedGrids :
            (HasStar(n) /\ IsFinite(n.lo.actual_duration)) =>
                SumSeq(FinalColsizes(n)) = n.lo.actual_duration

\* a Grid of a Second and a Star column, or of two Star columns, arranged
\* with more than its measured column widths
C17_Witness ==
    /\ pc = "arranged"
    /\ \E n \in ArrangedGrids :
          /\ HasStar(n)
          /\ Len(n.ch) = 2
          /\ RLt(Zero, SumSeq(n.lo.min_column_width))
          /\ RLt(SumSeq(n.lo.min_column_width), n.lo.actual_duration)

\* C18 as claimed: the Grid of two Star columns (1 and 2) with a 20 ns Play
\* in column 0 and a 40 ns Play in column 1, arranged with 90 ns, has columns
\* of 30 ns and 60 ns, child 0 starting at 0 ns and child 1 at 30 ns.
C18_ExampleLeftAligned ==
    (pc = "arranged" /\ orig = Schedule(GridExample)) =>
        /\ FinalColsizes(tree) = <<Q(30), Q(60)>>
        /\ tree.ch[1].lo.actual_time = Q(0)
        /\ tree.ch[2].lo.actual_time = Q(30)

\* C18 as amended: the same Grid has columns of 30 ns and 60 ns, and its
\* children, of the default alignment END, end with their columns: child 0
\* starts at 10 ns and child 1 at 50 ns.
C18_ExampleEndAligned ==
    (pc = "arranged" /\ orig = Schedule(GridExample)) =>
        /\ FinalColsizes(tree) = <<Q(30), Q(60)>>
        /\ tree.ch[1].lo.actual_time = Q(10)
        /\ tree.ch[1].lo.actual_duration = Q(20)
        /\ tree.ch[2].lo.actual_time = Q(50)
        /\ tree.ch[2].lo.actual_duration = Q(40)

\* the example Grid has been arranged with 90 ns
C18_Witness ==
    /\ pc = "arranged"
    /\ orig = Schedule(GridExample)
    /\ tree.lo.actual_duration = Q(90)
    /\ tree.lo.actual_time = Zero

\* frequencies and times to apply a tracker operation with
FreqSamples == {Q(-1), <<1, 2>>, Q(2)}
TimeSamples == {Zero, <<1, 2>>, Q(3)}

\* delta_freq * t + phase of a channel status
InstPhase(s, t) == RAdd(RMul(s.delta_freq, t), s.phase)

\* the carrier phase at t of a pulse played at t on the channel: the phase
\* of the pulse plus its global frequency times t
PlayPhase(tr, channel, t) ==
    LET pulses == play(tr, channel, Envelope("none", Q(1), Zero), Zero, Zero,
                       Q(1), Zero, t).tr[channel + 1].pulses
    IN  RAdd(RMul(pulses[Len(pulses)].freq_g, t), pulses[Len(pulses)].amp.phase)

\* C19: whatever tracker operations came before, shift_freq(delta, t) and
\* set_freq(f, t) leave delta_freq * t + phase of the channel as it was, and
\* a Play at t right after the change has the carrier phase at t it would
\* have had without the change.
C19_FreqChangeKeepsPhase ==
    pc \in {"start", "rendered"} =>
        \A c \in 0..(Len(tracker) - 1) :
            \A x \in FreqSamples : \A t \in TimeSamples :
                /\ InstPhase(shift_freq(tracker, c, x, t).tr[c + 1], t)
                      = InstPhase(tracker[c + 1], t)
                /\ InstPhase(set_freq(tracker, c, x, t).tr[c + 1], t)
                      = InstPhase(tracker[c + 1], t)
                /\ PlayPhase(shift_freq(tracker, c, x, t).tr, c, t)
                      = PlayPhase(tracker, c, t)
                /\ PlayPhase(set_freq(tracker, c, x, t).tr, c, t)
                      = PlayPhase(tracker, c, t)

\* the schedule has changed the frequency and the phase of a channel
C19_Witness ==
    /\ pc = "rendered"
    /\ \E c \in 1..Len(tracker) :
          /\ tracker[c].delta_freq # Zero
          /\ tracker[c].phase # Zero
          /\ tracker[c].pulses # <<>>
    /\ \E i \in 1..Len(ops) : ops[i].op \in {"ShiftFrequency", "SetFrequency"}

\* total_freq * t + phase of a channel status
TotalPhase(s, t) == RAdd(RMul(total_freq(s), t), s.phase)

\* the tracker after swap_phase(a, b, t)
Swapped(tr, a, b, t) == swap_phase(tr, a, b, t).tr

\* C20: swap_phase(a, b, t) gives each of the two channels the value of
\* total_freq * t + phase the other had, leaves delta_freq of both as it was,
\* and a second swap_phase(a, b, t) restores both phases.
C20_SwapExchangesPhases ==
    pc \in {"start", "rendered"} =>
        \A a, b \in 0..(Len(tracker) - 1) : \A t \in TimeSamples :
            /\ TotalPhase(Swapped(tracker, a, b, t)[a + 1], t)
                  = TotalPhase(tracker[b + 1], t)
            /\ TotalPhase(Swapped(tracker, a, b, t)[b + 1], t)
                  = TotalPhase(tracker[a + 1], t)
            /\ Swapped(tracker, a, b, t)[a + 1].delta_freq
                  = tracker[a + 1].delta_freq
            /\ Swapped(tracker, a, b, t)[b + 1].delta_freq
                  = tracker[b + 1].delta_freq
            /\ Swapped(Swapped(tracker, a, b, t), a, b, t) = tracker

\* the schedule has swapped the phases of two channels of different
\* frequencies at a time other than 0
C20_Witness ==
    /\ pc = "rendered"
    /\ Len(tracker) = 2
    /\ total_freq(tracker[1]) # total_freq(tracker[2])
    /\ tracker[1].phase # tracker[2].phase
    /\ \E i \in 1..Len(ops) : ops[i].op = "SwapPhase" /\ ops[i].time # Zero

\* the items that add to sample n of a channel's buffer
ItemsAt(y, n) == {y[n + 1][j].item : j \in 1..Len(y[n + 1])}

\* the items whose index range [i_start, i_end), clipped to [0, length],
\* holds n
ItemsClippedAt(pulses, c, n) ==
    {k \in 1..Len(pulses) :
        /\ IStart(pulses[k], c.sample_rate, c.align_level) <= n
        /\ 0 <= n
        /\ n < IEnd(pulses[k], c.sample_rate, c.align_level)
        /\ n < c.length}

\* C21: sampling clips the index range of every item to [0, length]: an item
\* adds to the samples of its clipped range only, and an item whose clipped
\* range is empty is skipped, so that sampling raises no error.
C21_SampleClipped ==
    /\ (pc = "failed" /\ err = "ValueError") => tree.lo.rendered = 0
    /\ pc = "done" =>
          \A nm \in DOMAIN waveforms :
              \A n \in 0..(channels[waveforms[nm].channel].length - 1) :
                  ItemsAt(waveforms[nm].y, n) =
                      ItemsClippedAt(tracker[waveforms[nm].channel].pulses,
                                     channels[waveforms[nm].channel], n)

\* alignment levels and multiples of the alignment step to delay by
AlignLevels == {0, 1}
StepMultiples == {1, 2}

\* the alignment step 2^align_level / sample_rate
AlignStep(sample_rate, align_level) == RDiv(Pow2(align_level), sample_rate)

\* the buffer the delayed items are sampled into
DelayBuffer == MaxLength + 4

\* the item lies inside a buffer of DelayBuffer samples
InsideBuffer(item, sample_rate, align_level) ==
    /\ 0 <= IStart(item, sample_rate, align_level)
    /\ IEnd(item, sample_rate, align_level) <= DelayBuffer

\* sampling the item delayed by delta gives the samples of the item moved by
\* delta * sample_rate positions, with the same local times and the same
\* phase shift
DelayShiftsSamples(item, delta, sample_rate, align_level) ==
    LET moved == delay(<<item>>, delta)[1]
        m == Floor(RMul(delta, sample_rate))
        y0 == sample(<<item>>, DelayBuffer, sample_rate, align_level)
        y1 == sample(<<moved>>, DelayBuffer, sample_rate, align_level)
    IN  (/\ InsideBuffer(item, sample_rate, align_level)
         /\ InsideBuffer([item EXCEPT !.time = RAdd(@, delta)],
                         sample_rate, align_level)
         /\ y0.err = "none")
        => /\ y1.err = "none"
           /\ \A i \in 1..DelayBuffer :
                 y1.y[i] = IF i - m >= 1 THEN y0.y[i - m] ELSE <<>>
           /\ PhaseShift(moved, sample_rate, align_level)
                 = PhaseShift(item, sample_rate, align_level)

\* C22: delaying a pulse list by a whole multiple of the channel's alignment
\* step moves the samples of every item that stays inside the buffer by
\* delta * sample_rate positions, envelope times and carrier phase unchanged,
\* and delay(a) followed by delay(b) is delay(a + b).
C22_DelayCommutes ==
    pc = "rendered" =>
        \A k \in 1..Len(tracker) : \A al \in AlignLevels : \A mu \in StepMultiples :
            /\ \A j \in 1..Len(tracker[k].pulses) :
                  DelayShiftsSamples(tracker[k].pulses[j],
                      RMul(Q(mu), AlignStep(channels[k].sample_rate, al)),
                      channels[k].sample_rate, al)
            /\ delay(delay(tracker[k].pulses, Q(mu)), <<1, 2>>)
                  = delay(tracker[k].pulses, RAdd(Q(mu), <<1, 2>>))

\* the element names a channel outside [0, number of channels), or is a Play
\* of a shape other than -1 outside [0, number of shapes)
BadId(e) ==
    \/ /\ e.type \in {"Play", "ShiftPhase", "SetPhase", "ShiftFrequency",
                      "SetFrequency", "SwapPhase"}
       /\ ~(0 <= e.channel_id /\ e.channel_id < Len(channels))
    \/ /\ e.type = "SwapPhase"
       /\ ~(0 <= e.channel_id2 /\ e.channel_id2 < Len(channels))
    \/ /\ e.type = "Play"
       /\ e.shape_id # -1
       /\ ~(0 <= e.shape_id /\ e.shape_id < Len(shapes))

\* C23: once the rendering has come to an element with a channel id or a
\* shape id out of range, run_schedule has failed with an error, at that
\* element, and returns no waveform.
C23_BadIdFails ==
    \A p \in Paths(tree) :
        (BadId(NodeAt(tree, p).e) /\ NodeAt(tree, p).lo.rendered > 0) =>
            /\ pc = "failed"
            /\ err = "IndexError"
            /\ waveforms = NoWaveforms

\* the contributions to the samples of the returned buffer w: the item and
\* the local time of each
Contributions(w) ==
    UNION { { [item |-> tracker[w.channel].pulses[w.y[i][j].item],
               t |-> w.y[i][j].t] : j \in 1..Len(w.y[i]) } :
            i \in 1..Len(w.y) }

\* C24: an envelope without a shape samples to 1 at the local times in
\* [0, width + plateau) and to 0 at every other local time, the negative
\* local time of a first sample before the aligned start included (items
\* at times >= 0, whose samples are those of their own index range).
C24_RectangularEnvelope ==
    pc = "done" =>
        \A nm \in DOMAIN waveforms : \A c \in Contributions(waveforms[nm]) :
            (c.item.envelope.shape = "none" /\ RLe(Zero, c.item.time)) =>
                EnvelopeSample(c.item.envelope, c.t).value =
                    IF RLe(Zero, c.t) /\ RLt(c.t, EnvelopeDuration(c.item.envelope))
                    THEN Q(1) ELSE Zero

\* the Star columns of the Grid
StarColumns(n) == {q \in 1..Len(n.e.columns) : n.e.columns[q].unit = "STAR"}

\* width / value of column q
WidthRatio(n, widths, q) == RDiv(widths[q], n.e.columns[q].value)

\* the remaining duration arrange_override hands to _expand_column_width
ArrangeRemaining(n) ==
    RSub(n.lo.actual_duration, SumSeq(n.lo.min_column_width))

\* the Star columns that are wider after the expansion
Grown(n) ==
    {q \in StarColumns(n) : RLt(n.lo.min_column_width[q], FinalColsizes(n)[q])}

\* the expansion from min_column_width to FinalColsizes is a water-filling
WaterFilled(n) ==
    /\ SumSeq(FinalColsizes(n)) =
          RAdd(SumSeq(n.lo.min_column_width), ArrangeRemaining(n))
    /\ \A q \in 1..Len(n.e.columns) :
          /\ RLe(n.lo.min_column_width[q], FinalColsizes(n)[q])
          /\ q \notin StarColumns(n) =>
                FinalColsizes(n)[q] = n.lo.min_column_width[q]
    /\ \A g \in Grown(n) : \A q \in StarColumns(n) :
          IF q \in Grown(n)
          THEN WidthRatio(n, FinalColsizes(n), g) = WidthRatio(n, FinalColsizes(n), q)
          ELSE RLe(WidthRatio(n, FinalColsizes(n), g),
                   WidthRatio(n, FinalColsizes(n), q))

\* C25: _expand_column_width with remaining >= 0 over Star columns of
\* positive weight is a water-filling: the Star columns grow by remaining in
\* all, no column shrinks, the other columns keep their width, the columns
\* that grew share one width/value ratio and no Star column that did not
\* grow has a smaller one.
C25_WaterFilling ==
    pc = "arranged" =>
        \A n \in ArrangedGrids :
            (/\ StarColumns(n) # {}
             /\ \A q \in StarColumns(n) : RLt(Zero, n.e.columns[q].value)
             /\ RLe(Zero, ArrangeRemaining(n))
             /\ IsFinite(ArrangeRemaining(n)))
            => WaterFilled(n)

\* a Grid of two Star columns one of which grew and one of which did not
C25_Witness ==
    /\ pc = "arranged"
    /\ \E n \in ArrangedGrids :
          /\ Cardinality(StarColumns(n)) = 2
          /\ RLt(Zero, ArrangeRemaining(n))
          /\ Cardinality(Grown(n)) = 1

\* the tracker call a logged operation stands for, applied to tr
ApplyOp(tr, o) ==
    CASE o.op = "Play" ->
            play(tr, o.channel, o.envelope, o.frequency, o.phase, o.amplitude,
                 o.drag_coef, o.time).tr
      [] o.op = "ShiftFrequency" -> shift_freq(tr, o.channel, o.frequency, o.time).tr
      [] o.op = "SetFrequency" -> set_freq(tr, o.channel, o.frequency, o.time).tr
      [] o.op = "ShiftPhase" -> shift_phase(tr, o.channel, o.phase).tr
      [] o.op = "SetPhase" -> set_phase(tr, o.channel, o.phase, o.time).tr
      [] o.op = "SwapPhase" -> swap_phase(tr, o.channel, o.channel2, o.time).tr

\* the tracker after the first i operations of the rendering
RECURSIVE TrackerAfter(_)
TrackerAfter(i) ==
    IF i = 0
    THEN PhaseTracker([k \in 1..Len(channels) |-> channels[k].base_freq])
    ELSE ApplyOp(TrackerAfter(i - 1), ops[i])

\* the pulse list s is the beginning of the pulse list l
StartsWith(l, s) == Len(s) <= Len(l) /\ SubSeq(l, 1, Len(s)) = s

\* the i-th operation is a Play that appends to channel position c one item
\* with the frequency and phase of the channel as they were before it, or
\* nothing when its amplitude is 0
PlayRecordsState(i, c) ==
    IF ops[i].amplitude = Zero
    THEN TrackerAfter(i)[c].pulses = TrackerAfter(i - 1)[c].pulses
    ELSE /\ Len(TrackerAfter(i)[c].pulses) = Len(TrackerAfter(i - 1)[c].pulses) + 1
         /\ TrackerAfter(i)[c].pulses[Len(TrackerAfter(i)[c].pulses)].freq_g
               = total_freq(TrackerAfter(i - 1)[c])
         /\ TrackerAfter(i)[c].pulses[Len(TrackerAfter(i)[c].pulses)].amp.phase
               = RAdd(TrackerAfter(i - 1)[c].phase, ops[i].phase)

\* C26: the tracker is the result of the operations in render order; a Play
\* of non-zero amplitude appends one item with freq_g = total_freq and
\* phase = channel phase + local phase as they are at the call, a Play of
\* amplitude 0 appends nothing, and no operation changes an item that is
\* already in a pulse list.
C26_RenderOrder ==
    pc = "rendered" =>
        /\ TrackerAfter(Len(ops)) = tracker
        /\ \A i \in 1..Len(ops) :
              /\ ops[i].op = "Play" =>
                    PlayRecordsState(i, PyPos(ops[i].channel, Len(tracker)))
              /\ \A c \in 1..Len(tracker) :
                    StartsWith(TrackerAfter(i)[c].pulses,
                               TrackerAfter(i - 1)[c].pulses)

\* a Play of non-zero amplitude on a channel whose phase earlier operations
\* have changed
C26_Witness ==
    /\ pc = "rendered"
    /\ \E i \in 1..Len(ops) :
          /\ ops[i].op = "Play"
          /\ ops[i].amplitude # Zero
          /\ TrackerAfter(i - 1)[ops[i].channel + 1].phase # Zero
    /\ \E c \in 1..Len(tracker) : tracker[c].pulses # <<>>

\* the positions in the tracker of the channels the operation names
Named(o) ==
    IF o.op = "SwapPhase"
    THEN {PyPos(o.channel, Len(tracker)), PyPos(o.channel2, Len(tracker))}
    ELSE {PyPos(o.channel, Len(tracker))}

\* what the operation may change of a channel it names
FrameOf(o, before, after) ==
    CASE o.op = "Play" -> after = [before EXCEPT !.pulses = after.pulses]
      [] o.op = "SwapPhase" -> after = [before EXCEPT !.phase = after.phase]
      [] o.op \in {"ShiftPhase", "SetPhase"} ->
            after = [before EXCEPT !.phase = after.phase]
      [] OTHER ->
            after = [before EXCEPT !.phase = after.phase,
                                   !.delta_freq = after.delta_freq]

\* C27: every tracker operation leaves the channels it does not name as they
\* were; of the channels it names, shift_freq, set_freq, shift_phase,
\* set_phase and swap_phase leave the pulse list as it was, swap_phase
\* changes the phase only, and play changes the pulse list only.
C27_FrameEffects ==
    pc = "rendered" =>
        \A i \in 1..Len(ops) : \A c \in 1..Len(tracker) :
            IF c \in Named(ops[i])
            THEN FrameOf(ops[i], TrackerAfter(i - 1)[c], TrackerAfter(i)[c])
            ELSE TrackerAfter(i)[c] = TrackerAfter(i - 1)[c]

\* a phase shift on one of two channels, the other holding a phase and a
\* frequency of its own
C27_Witness ==
    /\ pc = "rendered"
    /\ Len(tracker) = 2
    /\ \E i \in 1..Len(ops) :
          /\ ops[i].op = "ShiftPhase"
          /\ ops[i].phase # Zero
          /\ \E c \in 1..2 : c \notin Named(ops[i])

\* C28: the envelope a flexible Play plays has a plateau >= 0, whatever
\* parent arranged it and however short the duration it was arranged into.
C28_FlexiblePlateauNonNegative ==
    \A i \in 1..Len(ops) :
        (ops[i].op = "Play" /\ NodeAt(tree, ops[i].src).e.flexible) =>
            RLe(Zero, ops[i].envelope.plateau)

\* the start and the duration of the span of child k of an arranged Grid
SpanStart(n, k) ==
    LET colsizes == FinalColsizes(n)
        colstarts == ColStarts(colsizes)
    IN  colstarts[PyPos(ActualColumn(n.ch[k].e.column, Len(colsizes)),
                        Len(colstarts))]

SpanDuration(n, k) ==
    LET colsizes == FinalColsizes(n)
        col == ActualColumn(n.ch[k].e.column, Len(colsizes))
    IN  SumSeq(PySlice(colsizes, col,
                       col + ActualSpan(n.ch[k].e.span, n.ch[k].e.column,
                                        Len(colsizes))))

\* the time the Grid arranged child k at: its content time less its margin
ArrangedTime(n, k) == RSub(n.ch[k].lo.actual_time, n.ch[k].e.margin[1])

\* C29: after Grid arrange every column width is >= 0, and every child
\* begins at or after the start of its span and, with the duration the Grid
\* arranged it with, ends at or before the end of its span, whatever the
\* arranged duration of the Grid.
C29_ColumnsAndChildrenInside ==
    pc = "arranged" =>
        \A n \in ArrangedGrids :
            /\ \A q \in 1..Len(FinalColsizes(n)) :
                  RLe(Zero, FinalColsizes(n)[q])
            /\ \A k \in 1..Len(n.ch) :
                  /\ RLe(SpanStart(n, k), ArrangedTime(n, k))
                  /\ RLe(RAdd(ArrangedTime(n, k),
                              GridChildDuration(n.ch[k].e.alignment,
                                                n.ch[k].lo.desired_duration,
                                                SpanDuration(n, k))),
                         RAdd(SpanStart(n, k), SpanDuration(n, k)))

\* the arguments of the call an entry of the log stands for
TrackerCall(o) ==
    CASE o.op = "Play" ->
            <<"play", o.channel, o.envelope, o.frequency, o.phase,
              o.amplitude, o.drag_coef, o.time>>
      [] o.op = "ShiftFrequency" -> <<"shift_freq", o.channel, o.frequency, o.time>>
      [] o.op = "SetFrequency" -> <<"set_freq", o.channel, o.frequency, o.time>>
      [] o.op = "ShiftPhase" -> <<"shift_phase", o.channel, o.phase>>
      [] o.op = "SetPhase" -> <<"set_phase", o.channel, o.phase, o.time>>
      [] o.op = "SwapPhase" -> <<"swap_phase", o.channel, o.channel2, o.time>>

TrackerCalls(log) == [i \in 1..Len(log) |-> TrackerCall(log[i])]

\* the tracker, the calls made on it and the exception, if any, of
\* run_schedule's measure, arrange and render of the schedule n
RunScheduleRender(n, tr, shps) ==
    LET m == measure(n, Inf)
    IN  IF m.err # "none" THEN [tr |-> tr, calls |-> <<>>, err |-> m.err]
        ELSE IF m.n.lo.desired_duration = None
        THEN [tr |-> tr, calls |-> <<>>, err |-> "AssertionError"]
        ELSE LET a == arrange(m.n, Zero, m.n.lo.desired_duration)
             IN  IF a.err # "none"
                 THEN [tr |-> tr, calls |-> <<>>, err |-> a.err]
                 ELSE LET r == render(a.n, Zero, <<>>, World(tr, <<>>), shps)
                      IN  [tr |-> r.w.tr, calls |-> TrackerCalls(r.w.ops),
                           err |-> r.err]

\* C30: run_simple on a list of instructions makes the calls on the tracker,
\* with the times, that run_schedule makes on the root Absolute of the
\* corresponding leaf elements (zero margin, default layout attributes) at
\* the same times in the same order, and leaves the same pulse lists.
C30_RunSimpleAgrees ==
    [][RunSimpleInstructions =>
          LET s == RunScheduleRender(tree, tracker, shapes)
          IN  /\ TrackerCalls(ops') = s.calls
              /\ tracker' = s.tr
              /\ err' = s.err]_vars

\* run_simple has applied two instructions, a Play not at time 0 among them,
\* and a pulse list is not empty
C30_Witness ==
    /\ pc = "instructed"
    /\ Len(ops) = 2
    /\ \E i \in 1..2 : ops[i].op = "Play" /\ ops[i].time \notin {Zero, None}
    /\ \E i \in 1..2 : ops[i].op # "Play"
    /\ \E c \in 1..Len(tracker) : tracker[c].pulses # <<>>

====
